---- MODULE Spec2Model ----
(***************************************************************************)
(* Lullabot slackbot: the pattern dispatch registry (who owns a message)   *)
(* and the pending-action confirmation flows of the factoids plugin        *)
(* (forget / bulk cleanup / restore from backup).                          *)
(*                                                                         *)
(* Time is counted in milliseconds, as Date.now() does.  Priorities are    *)
(* JavaScript numbers; the model stores four times the priority so that    *)
(* 0.25, 0.5, 1, 5, 10 and 100 are the integers 1, 2, 4, 20, 40 and 400.   *)
(***************************************************************************)
EXTENDS Integers, Sequences, FiniteSets, TLC

VARIABLES
    rules,                   \* the registry's rule list, in registration order
    resolved,                \* results of Resolve and MatchesAny on the last text asked
    registered,              \* the Register call just made, if any: its outcome
                             \* and the rule list it was made on
    scan,                    \* the Resolve / MatchesAny scan in progress or just ended
    now,                     \* Date.now()
    nextSweep,               \* when the setInterval callback is next due
    pendingForgetRequests,   \* Map userId -> ForgetRequest
    pendingCleanupRequests,  \* Map userId -> cleanup request
    pendingRestoreRequests,  \* Map userId -> restore request
    facts,                   \* keys of the team's stored factoids (the JSON file)
    tasks,                   \* the asynchronous handler invocations in flight
    accepted,                \* per map and user: confirms handed the entry now in the map
    last,                    \* what the step just taken did to the store
    rateLimitStore,          \* Map `${identifier}:${userId}` -> RateLimitEntry
    granted,                 \* per limit and user: when the calls allowed lately were made
    uncleaned,               \* rateLimitStore as it would be had no cleanup ever run
    window,                  \* per limit and user: what the calls of the current window returned
    rateLast,                \* the last checkRateLimit: its user, result and the
                             \* getRemainingTime read at the same time
    lastCleanup,             \* when the cleanup interval fired last (-1: not yet)
    pluginEnv,               \* process.env.ENABLED_PLUGINS when the PluginRegistry was built
    enabledPlugins,          \* PluginRegistry.enabledPlugins: null, or a Set in insertion order
    pluginAnswer,            \* the last isPluginEnabled / getEnabledPlugins call and its result
    llmWorker,               \* LocalLlmService: the ChildProcess last forked (0: null)
    isInitializing,          \* LocalLlmService: module flag
    isInitialized,           \* LocalLlmService: module flag
    workers,                 \* per forked worker: how far it got, how it exited, and
                             \* the promise of the initializeModel call that forked it
    initWaiter,              \* the promise of an initializeModel call that found
                             \* an initialization in progress
    pendingRequests,         \* LocalLlmService: Map requestId -> { resolve, reject, timeoutId }
    requestIdCounter,        \* LocalLlmService: module counter of generateRequestId
    calls                    \* the generateResponse calls: where each stands, its
                             \* request id, promise and timer

registryVars == <<rules, resolved, registered, scan>>
storeVars == <<now, nextSweep, pendingForgetRequests, pendingCleanupRequests,
               pendingRestoreRequests, facts, tasks, accepted, last>>
rateVars == <<rateLimitStore, granted, uncleaned, window, rateLast, lastCleanup>>
vars == <<rules, resolved, registered, scan, now, nextSweep, pendingForgetRequests,
          pendingCleanupRequests, pendingRestoreRequests, facts, tasks,
          accepted, last, rateLimitStore, granted, uncleaned, window, rateLast,
          lastCleanup,
          pluginEnv, enabledPlugins, pluginAnswer,
          llmWorker, isInitializing, isInitialized, workers, initWaiter,
          pendingRequests, requestIdCounter, calls>>
pluginVars == <<pluginEnv, enabledPlugins, pluginAnswer>>
promptVars == <<pendingRequests, requestIdCounter, calls>>
llmVars == <<llmWorker, isInitializing, isInitialized, workers, initWaiter, promptVars>>
serviceVars == <<pluginVars, llmVars>>

None == "none"

\* No Resolve / MatchesAny call since the last Register.
NoCall == [text |-> <<>>, owner |-> None, any |-> FALSE]

(***************************************************************************)
(* Pattern dispatch registry                                               *)
(***************************************************************************)

MaxRules == 3

\* Message texts, as sequences of characters.
Texts == { <<"h", "i">>, <<"y", "o">> }

\* Patterns: ^hi$ (as /^help$/i, '^hello$'), ^.+$ (the catch-all).
Patterns == { [kind |-> "exact", arg |-> <<"h", "i">>], [kind |-> "any", arg |-> <<>>] }

\* No Register call since the last Resolve / MatchesAny call.
NotRegistering == [outcome |-> "none", before |-> <<>>]

\* A pattern whose matcher cannot be constructed.
BadPatterns == { [kind |-> "invalid", arg |-> <<>>] }

Owners == { "llm", "catchall" }

\* 4 * priority: 0.25, 1 and 100.
Priorities == { 1, 4, 400 }

\* RegExp.test(text) for the pattern shapes above.
Matches(pattern, text) ==
    CASE pattern.kind = "exact" -> text = pattern.arg
      [] pattern.kind = "any"   -> Len(text) >= 1
      [] pattern.kind = "invalid" -> FALSE

\* The rules whose pattern matches the text (every rule is evaluated).
MatchingRules(rs, text) ==
    { i \in 1..Len(rs) : Matches(rs[i].pattern, text) }

\* Step 2/3 of Resolve: exclusive matches if there is one, else all matches.
DecidingRules(rs, text) ==
    LET m == MatchingRules(rs, text)
        x == { i \in m : rs[i].exclusive }
    IN  IF x # {} THEN x ELSE m

\* Highest priority, ties broken by the lowest registrationOrder.
Winner(rs, cands) ==
    CHOOSE i \in cands :
        \A j \in cands :
            \/ rs[i].priority > rs[j].priority
            \/ /\ rs[i].priority = rs[j].priority
               /\ rs[i].registrationOrder <= rs[j].registrationOrder

ResolveFirstMatch(rs, text) ==
    LET m == MatchingRules(rs, text)
    IN  IF m = {} THEN None
        ELSE rs[CHOOSE i \in m : \A j \in m : i <= j].owner

ResolveByPriorityOnly(rs, text) ==
    LET m == MatchingRules(rs, text)
    IN  IF m = {} THEN None ELSE rs[Winner(rs, m)].owner

ResolveLastOnTie(rs, text) ==
    LET d == DecidingRules(rs, text)
    IN  IF d = {} THEN None
        ELSE rs[CHOOSE i \in d : \A j \in d :
                    \/ rs[i].priority > rs[j].priority
                    \/ /\ rs[i].priority = rs[j].priority
                       /\ rs[i].registrationOrder >= rs[j].registrationOrder].owner

ResolveUnfiltered(rs, text) ==
    LET all == 1..Len(rs)
        x == { i \in all : rs[i].exclusive }
    IN  IF all = {} THEN None
        ELSE rs[Winner(rs, IF x # {} THEN x ELSE all)].owner

ResolveFirstExclusive(rs, text) ==
    LET m == MatchingRules(rs, text)
        x == { i \in m : rs[i].exclusive }
    IN  IF m = {} THEN None
        ELSE IF x # {} THEN rs[CHOOSE i \in x : \A j \in x : i <= j].owner
        ELSE rs[Winner(rs, m)].owner

ResolveExclusiveOnly(rs, text) ==
    LET x == { i \in MatchingRules(rs, text) : rs[i].exclusive }
    IN  IF x = {} THEN None ELSE rs[Winner(rs, x)].owner

\* Resolve(text) -> ownerId | none
Resolve(rs, text) ==
    LET d == DecidingRules(rs, text)
    IN  IF d = {} THEN None ELSE rs[Winner(rs, d)].owner

MatchesAnyFirstRule(rs, text) ==
    Len(rs) >= 1 /\ Matches(rs[1].pattern, text)

\* MatchesAny(text) -> bool
MatchesAny(rs, text) == MatchingRules(rs, text) # {}

RegisterAtFront(pattern, ownerId, priority, exclusive) ==
    /\ IF pattern \in BadPatterns
       THEN /\ rules' = rules
            /\ registered' = [outcome |-> "InvalidPatternError", before |-> rules]
       ELSE /\ Len(rules) < MaxRules
            /\ rules' = <<[pattern |-> pattern, owner |-> ownerId,
                           priority |-> priority, exclusive |-> exclusive,
                           registrationOrder |-> Len(rules) + 1]>> \o rules
            /\ registered' = [outcome |-> "ok", before |-> rules]
    /\ resolved' = NoCall
    /\ UNCHANGED scan
    /\ UNCHANGED storeVars
    /\ UNCHANGED rateVars
    /\ UNCHANGED serviceVars

RegisterUnchecked(pattern, ownerId, priority, exclusive) ==
    /\ Len(rules) < MaxRules
    /\ rules' = Append(rules, [pattern |-> pattern, owner |-> ownerId,
                               priority |-> priority, exclusive |-> exclusive,
                               registrationOrder |-> Len(rules) + 1])
    /\ registered' = [outcome |-> IF pattern \in BadPatterns
                                   THEN "InvalidPatternError" ELSE "ok",
                      before |-> rules]
    /\ resolved' = NoCall
    /\ UNCHANGED scan
    /\ UNCHANGED storeVars
    /\ UNCHANGED rateVars
    /\ UNCHANGED serviceVars

\* Register(pattern, ownerId, priority, exclusive): fails with
\* InvalidPatternError if the pattern cannot be compiled, else appends the
\* rule and gives it the next registrationOrder.
Register(pattern, ownerId, priority, exclusive) ==
    /\ IF pattern \in BadPatterns
       THEN /\ rules' = rules
            /\ registered' = [outcome |-> "InvalidPatternError", before |-> rules]
       ELSE /\ Len(rules) < MaxRules
            /\ rules' = Append(rules, [pattern |-> pattern, owner |-> ownerId,
                                       priority |-> priority, exclusive |-> exclusive,
                                       registrationOrder |-> Len(rules) + 1])
            /\ registered' = [outcome |-> "ok", before |-> rules]
    /\ resolved' = NoCall
    /\ UNCHANGED scan
    /\ UNCHANGED storeVars
    /\ UNCHANGED rateVars
    /\ UNCHANGED serviceVars

\* No scan of the rule list has begun.
NoScan == [state |-> "none", text |-> <<>>, over |-> <<>>]

ScanListTorn(s, rs) ==
    IF Len(rs) > Len(s.over)
    THEN Append(s.over, [rs[Len(s.over) + 1] EXCEPT !.owner = None])
    ELSE s.over

\* The rule list a scan iterates: the list as it was when the scan began
\* (an append builds a new list and leaves the one being scanned alone).
ScanList(s, rs) == s.over

\* A Resolve / MatchesAny call begins its scan of the rule list ...
ResolveBegin(text) ==
    /\ scan.state # "scanning"
    /\ scan' = [state |-> "scanning", text |-> text, over |-> rules]
    /\ resolved' = NoCall
    /\ registered' = NotRegistering
    /\ UNCHANGED rules
    /\ UNCHANGED storeVars
    /\ UNCHANGED rateVars
    /\ UNCHANGED serviceVars

\* ... and returns, registrations having been free to run in between.
ResolveEnd ==
    /\ scan.state = "scanning"
    /\ resolved' = [text |-> scan.text,
                    owner |-> Resolve(ScanList(scan, rules), scan.text),
                    any |-> MatchesAny(ScanList(scan, rules), scan.text)]
    /\ scan' = [scan EXCEPT !.state = "done"]
    /\ registered' = NotRegistering
    /\ UNCHANGED rules
    /\ UNCHANGED storeVars
    /\ UNCHANGED rateVars
    /\ UNCHANGED serviceVars

\* A feature module asks who owns a text, and whether anyone owns it.
ResolveCall(text) ==
    /\ resolved' = [text |-> text, owner |-> Resolve(rules, text),
                    any |-> MatchesAny(rules, text)]
    /\ registered' = NotRegistering
    /\ UNCHANGED <<rules, scan>>
    /\ UNCHANGED storeVars
    /\ UNCHANGED rateVars
    /\ UNCHANGED serviceVars

(***************************************************************************)
(* Pending-action confirmation flows (factoids plugin)                     *)
(***************************************************************************)

MaxTicks == 4

\* "Remove requests older than 5 minutes"
ForgetTtl == 300000
\* "Cleanup old requests every 10 minutes (600000 ms)"
SweepInterval == 600000

\* Time advances in steps of half the ttl.
Tick == ForgetTtl \div 2

Users == { "U1", "U2" }
Kinds == { "forget", "cleanup", "restore" }
\* Handler invocations that can be waiting on an await at the same time.
TaskIds == { 1, 2 }

\* Storage keys of factoids; "a,b" fails the cleanup command's validity test.
FactKeys == { "drupal", "a,b" }
InvalidKeys == { k \in FactKeys : k = "a,b" }

\* Backup files that exist in the backups directory, and what they hold.
BackupFiles == { "bk1", "bk2" }
BackupData(file) == IF file = "bk1" THEN { "drupal" } ELSE { "drupal", "a,b" }

Team == "T1"
Channel == "C1"

\* The value stored by pendingForgetRequests.set
ForgetRequest(key, ts) ==
    [key |-> key, team |-> Team, channel |-> Channel, timestamp |-> ts]

\* The value stored by pendingCleanupRequests.set
CleanupRequest(keys, ts) ==
    [keys |-> keys, team |-> Team, channel |-> Channel, timestamp |-> ts]

\* The value stored by pendingRestoreRequests.set
RestoreRequest(file, ts) ==
    [backupFile |-> file, team |-> Team, channel |-> Channel, timestamp |-> ts]

\* Map.get / a local variable holding undefined.
NoRequest == [absent |-> TRUE]

\* A handler invocation waiting on an await: where it is and its local variables.
\* (at: the clock reading when the handler was handed its request.)
Idle == [handler |-> "idle", pc |-> "idle", user |-> None, request |-> NoRequest,
         factoids |-> {}, keys |-> {}, at |-> 0]

Task(handler, pc, user, request, factoids, keys) ==
    [handler |-> handler, pc |-> pc, user |-> user, request |-> request,
     factoids |-> factoids, keys |-> keys,
     at |-> IF request = NoRequest THEN 0 ELSE now]

\* A handler that starts and has to wait takes the first free slot.
FreeSlot(t) ==
    /\ tasks[t].handler = "idle"
    /\ \A s \in TaskIds : s < t => tasks[s].handler # "idle"

\* What the step just taken did to the store: the operation, its key, the
\* entry it stored, returned or had fetched, the entry the key held before,
\* and the message the step sent to the user with say() / respond(), if any.
Did(op, kind, user, ret, old) ==
    [op |-> op, kind |-> kind, user |-> user, ret |-> ret, old |-> old,
     reply |-> "none"]
Said(did, reply) == [did EXCEPT !.reply = reply]
NoOp == Did("none", None, None, NoRequest, NoRequest)

MapGetAny(m, user) ==
    IF m = {} THEN NoRequest ELSE (CHOOSE p \in m : TRUE)[2]

\* A Map is the set of its [key, value] entries.
\* Map.get(user): the value of the entry with that key, or undefined.
MapGet(m, user) ==
    IF \E p \in m : p[1] = user
    THEN (CHOOSE p \in m : p[1] = user)[2]
    ELSE NoRequest

MapSetIfAbsent(m, user, value) ==
    IF \E p \in m : p[1] = user THEN m ELSE m \cup { <<user, value>> }

MapSetAdd(m, user, value) == m \cup { <<user, value>> }

MapClear(m, user) == {}

MapKeep(m, user) == m

\* Map.set(user, value): replaces the value of an entry with that key, else
\* adds the entry.  Map.delete(user): removes the entry with that key.
MapSet(m, user, value) == { p \in m : p[1] # user } \cup { <<user, value>> }
MapDelete(m, user) == { p \in m : p[1] # user }

\* The entry of (user, kind) in the map of that kind, or NoRequest.
Pending(kind, user) ==
    CASE kind = "forget"  -> MapGet(pendingForgetRequests, user)
      [] kind = "cleanup" -> MapGet(pendingCleanupRequests, user)
      [] kind = "restore" -> MapGet(pendingRestoreRequests, user)

\* accepted[kind][user]: how many confirms have been handed the entry that
\* is in the map now (0 when the key has no entry; counted up to 2).
Bump(kind, user) == [accepted EXCEPT ![kind][user] = IF @ < 2 THEN @ + 1 ELSE @]
Reset(kind, user) == [accepted EXCEPT ![kind][user] = 0]

(* ---- forget: "@bot forget X", then a bare YES or NO ------------------- *)

\* app_mention handler, forget command: loadFacts and the key lookup.
ForgetCommand(t, u, rawKey) ==
    /\ IF rawKey \in facts
       THEN /\ FreeSlot(t)
            /\ tasks' = [tasks EXCEPT ![t] = Task("forgetCmd", "set", u, NoRequest, {}, {rawKey})]
       ELSE UNCHANGED tasks      \* "I don't know anything about ..."
    /\ last' = NoOp
    /\ UNCHANGED <<now, nextSweep, pendingForgetRequests, pendingCleanupRequests,
                   pendingRestoreRequests, facts, accepted>>
    /\ UNCHANGED registryVars
    /\ UNCHANGED rateVars
    /\ UNCHANGED serviceVars

\* ... then pendingForgetRequests.set(mention.user, ...) and the prompt; if
\* say() throws, the catch block runs with the entry already stored.
ForgetCmdSet(t, said) ==
    /\ tasks[t].handler = "forgetCmd" /\ tasks[t].pc = "set"
    /\ LET u == tasks[t].user
           foundKey == CHOOSE k \in tasks[t].keys : TRUE
           entry == ForgetRequest(foundKey, now)
       IN  /\ pendingForgetRequests' = MapSet(pendingForgetRequests, u, entry)
           /\ accepted' = Reset("forget", u)
           /\ last' = Said(Did("create", "forget", u, entry,
                                MapGet(pendingForgetRequests, u)),
                           IF said THEN "prompt" ELSE "failed")
    /\ tasks' = [tasks EXCEPT ![t] = Idle]
    /\ UNCHANGED <<now, nextSweep, pendingCleanupRequests, pendingRestoreRequests, facts>>
    /\ UNCHANGED registryVars
    /\ UNCHANGED rateVars
    /\ UNCHANGED serviceVars

\* The YES/NO handler up to its first await (message and app_mention variants
\* run the same statements): get, return if absent, delete, NO -> keep.
YesNoMessage(t, u, text) ==
    LET pendingRequest == MapGet(pendingForgetRequests, u)
    IN  /\ \/ /\ pendingRequest = NoRequest
              /\ last' = Did("get", "forget", u, NoRequest, NoRequest)
              /\ UNCHANGED <<pendingForgetRequests, tasks, accepted>>
           \/ /\ pendingRequest # NoRequest
              /\ text = "NO"
              /\ pendingForgetRequests' = MapDelete(pendingForgetRequests, u)
              /\ last' = Said(Did("cancel", "forget", u, pendingRequest, pendingRequest),
                               "kept")
              /\ UNCHANGED <<tasks, accepted>>
           \/ /\ pendingRequest # NoRequest
              /\ text = "YES"
              /\ FreeSlot(t)
              /\ pendingForgetRequests' = MapDelete(pendingForgetRequests, u)
              /\ tasks' = [tasks EXCEPT ![t] =
                              Task("yesNo", "load", u, pendingRequest, {}, {})]
              /\ last' = Did("confirm", "forget", u, pendingRequest, pendingRequest)
              /\ UNCHANGED accepted
        /\ UNCHANGED <<now, nextSweep, pendingCleanupRequests, pendingRestoreRequests, facts>>
        /\ UNCHANGED registryVars
        /\ UNCHANGED rateVars
        /\ UNCHANGED serviceVars

\* YES: loadFacts(pendingRequest.team), then delete factoids.data[key].
ForgetLoad(t) ==
    /\ tasks[t].handler = "yesNo" /\ tasks[t].pc = "load"
    /\ IF tasks[t].request.key \in facts
       THEN tasks' = [tasks EXCEPT ![t].pc = "save",
                                   ![t].factoids = facts \ {tasks[t].request.key}]
       ELSE tasks' = [tasks EXCEPT ![t] = Idle]
    /\ last' = NoOp
    /\ UNCHANGED <<now, nextSweep, pendingForgetRequests, pendingCleanupRequests,
                   pendingRestoreRequests, facts, accepted>>
    /\ UNCHANGED registryVars
    /\ UNCHANGED rateVars
    /\ UNCHANGED serviceVars

\* YES: saveFacts writes the loaded copy back (or throws into the catch).
ForgetSave(t, ok) ==
    /\ tasks[t].handler = "yesNo" /\ tasks[t].pc = "save"
    /\ IF ok
       THEN /\ facts' = tasks[t].factoids
            /\ last' = Did("execute", "forget", tasks[t].user, tasks[t].request, NoRequest)
       ELSE /\ UNCHANGED facts
            /\ last' = NoOp
    /\ tasks' = [tasks EXCEPT ![t] = Idle]
    /\ UNCHANGED <<now, nextSweep, pendingForgetRequests, pendingCleanupRequests,
                   pendingRestoreRequests, accepted>>
    /\ UNCHANGED registryVars
    /\ UNCHANGED rateVars
    /\ UNCHANGED serviceVars

(* ---- cleanup: "!factoid: cleanup", then a Confirm/Cancel button -------- *)

\* !factoid: cleanup handler: loadFacts and the scan for invalid factoids.
CleanupCommand(t, u) ==
    LET invalidFactoids == facts \cap InvalidKeys
    IN  /\ IF invalidFactoids # {}
           THEN /\ FreeSlot(t)
                /\ tasks' = [tasks EXCEPT ![t] =
                                Task("cleanupCmd", "say", u, NoRequest, {}, invalidFactoids)]
           ELSE UNCHANGED tasks  \* "No invalid factoids found ..."
        /\ last' = NoOp
        /\ UNCHANGED <<now, nextSweep, pendingForgetRequests, pendingCleanupRequests,
                       pendingRestoreRequests, facts, accepted>>
        /\ UNCHANGED registryVars
        /\ UNCHANGED rateVars
        /\ UNCHANGED serviceVars

\* ... once say() has delivered the prompt: pendingCleanupRequests.set; if
\* say() throws the catch block runs and nothing is stored.
CleanupCmdSet(t, ok) ==
    /\ tasks[t].handler = "cleanupCmd" /\ tasks[t].pc = "say"
    /\ LET u == tasks[t].user
           entry == CleanupRequest(tasks[t].keys, now)
       IN  IF ok
           THEN /\ pendingCleanupRequests' = MapSet(pendingCleanupRequests, u, entry)
                /\ accepted' = Reset("cleanup", u)
                /\ last' = Said(Did("create", "cleanup", u, entry,
                                     MapGet(pendingCleanupRequests, u)), "prompt")
           ELSE /\ UNCHANGED <<pendingCleanupRequests, accepted>>
                /\ last' = NoOp
    /\ tasks' = [tasks EXCEPT ![t] = Idle]
    /\ UNCHANGED <<now, nextSweep, pendingForgetRequests, pendingRestoreRequests, facts>>
    /\ UNCHANGED registryVars
    /\ UNCHANGED rateVars
    /\ UNCHANGED serviceVars

\* factoid_cleanup_(confirm|cancel) handler after ack(): has, get, and the
\* cancel branch; confirm goes on to await loadFacts with the entry left in the map.
CleanupAction(t, u, choice) ==
    LET request == MapGet(pendingCleanupRequests, u)
    IN  /\ \/ /\ request = NoRequest
              /\ last' = Said(Did("get", "cleanup", u, NoRequest, NoRequest), "noPending")
              /\ UNCHANGED <<pendingCleanupRequests, tasks, accepted>>
           \/ /\ request # NoRequest
              /\ choice = "cancel"
              /\ pendingCleanupRequests' = MapDelete(pendingCleanupRequests, u)
              /\ accepted' = Reset("cleanup", u)
              /\ last' = Said(Did("cancel", "cleanup", u, request, request), "cancelled")
              /\ UNCHANGED tasks
           \/ /\ request # NoRequest
              /\ choice = "confirm"
              /\ FreeSlot(t)
              /\ tasks' = [tasks EXCEPT ![t] =
                              Task("cleanupAct", "load", u, request, {}, {})]
              /\ accepted' = Bump("cleanup", u)
              /\ last' = Did("confirm", "cleanup", u, request, request)
              /\ UNCHANGED pendingCleanupRequests
        /\ UNCHANGED <<now, nextSweep, pendingForgetRequests, pendingRestoreRequests, facts>>
        /\ UNCHANGED registryVars
        /\ UNCHANGED rateVars
        /\ UNCHANGED serviceVars

\* confirm: loadFacts, write the pre-cleanup backup, delete request.keys from
\* the loaded copy; a failing backup write goes to the catch block.
CleanupActLoad(t, ok) ==
    /\ tasks[t].handler = "cleanupAct" /\ tasks[t].pc = "load"
    /\ IF ok
       THEN tasks' = [tasks EXCEPT ![t].pc = "save",
                                   ![t].factoids = facts \ tasks[t].request.keys]
       ELSE tasks' = [tasks EXCEPT ![t] = Idle]
    /\ last' = NoOp
    /\ UNCHANGED <<now, nextSweep, pendingForgetRequests, pendingCleanupRequests,
                   pendingRestoreRequests, facts, accepted>>
    /\ UNCHANGED registryVars
    /\ UNCHANGED rateVars
    /\ UNCHANGED serviceVars

\* confirm: saveFacts(team, factoids).
CleanupActSave(t, ok) ==
    /\ tasks[t].handler = "cleanupAct" /\ tasks[t].pc = "save"
    /\ IF ok
       THEN /\ facts' = tasks[t].factoids
            /\ tasks' = [tasks EXCEPT ![t].pc = "respond"]
            /\ last' = Did("execute", "cleanup", tasks[t].user, tasks[t].request, NoRequest)
       ELSE /\ UNCHANGED facts
            /\ tasks' = [tasks EXCEPT ![t] = Idle]
            /\ last' = NoOp
    /\ UNCHANGED <<now, nextSweep, pendingForgetRequests, pendingCleanupRequests,
                   pendingRestoreRequests, accepted>>
    /\ UNCHANGED registryVars
    /\ UNCHANGED rateVars
    /\ UNCHANGED serviceVars

\* confirm: after respond(), pendingCleanupRequests.delete(userId); the catch
\* block does not delete.
CleanupActDelete(t, ok) ==
    /\ tasks[t].handler = "cleanupAct" /\ tasks[t].pc = "respond"
    /\ IF ok
       THEN /\ pendingCleanupRequests' = MapDelete(pendingCleanupRequests, tasks[t].user)
            /\ accepted' = Reset("cleanup", tasks[t].user)
            /\ last' = Did("delete", "cleanup", tasks[t].user, tasks[t].request,
                           MapGet(pendingCleanupRequests, tasks[t].user))
       ELSE /\ UNCHANGED <<pendingCleanupRequests, accepted>>
            /\ last' = NoOp
    /\ tasks' = [tasks EXCEPT ![t] = Idle]
    /\ UNCHANGED <<now, nextSweep, pendingForgetRequests, pendingRestoreRequests, facts>>
    /\ UNCHANGED registryVars
    /\ UNCHANGED rateVars
    /\ UNCHANGED serviceVars

(* ---- restore: "!factoid: restore FILE", then a Confirm/Cancel button --- *)

\* !factoid: restore handler: access check, pre-restore backup of the current
\* factoids, pendingRestoreRequests.set, prompt.  Nothing it awaits before the
\* set touches the maps or the factoid file, so the handler is one step.
RestoreCommand(u, backupFile, ok, said) ==
    LET entry == RestoreRequest(backupFile, now)
    IN  /\ IF backupFile \in BackupFiles /\ ok
           THEN /\ pendingRestoreRequests' = MapSet(pendingRestoreRequests, u, entry)
                /\ accepted' = Reset("restore", u)
                /\ last' = Said(Did("create", "restore", u, entry,
                                     MapGet(pendingRestoreRequests, u)),
                                IF said THEN "prompt" ELSE "failed")
           ELSE /\ UNCHANGED <<pendingRestoreRequests, accepted>>
                /\ last' = NoOp
        /\ UNCHANGED <<now, nextSweep, pendingForgetRequests, pendingCleanupRequests,
                       facts, tasks>>
        /\ UNCHANGED registryVars
        /\ UNCHANGED rateVars
        /\ UNCHANGED serviceVars

\* factoid_restore_(confirm|cancel) handler after ack(): has, get, cancel branch.
RestoreAction(t, u, choice) ==
    LET request == MapGet(pendingRestoreRequests, u)
    IN  /\ \/ /\ request = NoRequest
              /\ last' = Said(Did("get", "restore", u, NoRequest, NoRequest), "noPending")
              /\ UNCHANGED <<pendingRestoreRequests, tasks, accepted>>
           \/ /\ request # NoRequest
              /\ choice = "cancel"
              /\ pendingRestoreRequests' = MapDelete(pendingRestoreRequests, u)
              /\ accepted' = Reset("restore", u)
              /\ last' = Said(Did("cancel", "restore", u, request, request), "cancelled")
              /\ UNCHANGED tasks
           \/ /\ request # NoRequest
              /\ choice = "confirm"
              /\ FreeSlot(t)
              /\ tasks' = [tasks EXCEPT ![t] =
                              Task("restoreAct", "read", u, request, {}, {})]
              /\ accepted' = Bump("restore", u)
              /\ last' = Did("confirm", "restore", u, request, request)
              /\ UNCHANGED pendingRestoreRequests
        /\ UNCHANGED <<now, nextSweep, pendingForgetRequests, pendingCleanupRequests, facts>>
        /\ UNCHANGED registryVars
        /\ UNCHANGED rateVars
        /\ UNCHANGED serviceVars

\* confirm: readFile + JSON.parse + validation of the backup.
RestoreActRead(t, outcome) ==
    /\ tasks[t].handler = "restoreAct" /\ tasks[t].pc = "read"
    /\ IF outcome = "ok"
       THEN tasks' = [tasks EXCEPT ![t].pc = "save",
                                   ![t].factoids = BackupData(tasks[t].request.backupFile)]
       ELSE tasks' = [tasks EXCEPT ![t].pc = "delete"]   \* invalid format, or catch
    /\ last' = NoOp
    /\ UNCHANGED <<now, nextSweep, pendingForgetRequests, pendingCleanupRequests,
                   pendingRestoreRequests, facts, accepted>>
    /\ UNCHANGED registryVars
    /\ UNCHANGED rateVars
    /\ UNCHANGED serviceVars

\* confirm: saveFacts(team, backupFactoids).
RestoreActSave(t, ok) ==
    /\ tasks[t].handler = "restoreAct" /\ tasks[t].pc = "save"
    /\ IF ok
       THEN /\ facts' = tasks[t].factoids
            /\ last' = Did("execute", "restore", tasks[t].user, tasks[t].request, NoRequest)
       ELSE /\ UNCHANGED facts
            /\ last' = NoOp
    /\ tasks' = [tasks EXCEPT ![t].pc = "delete"]
    /\ UNCHANGED <<now, nextSweep, pendingForgetRequests, pendingCleanupRequests,
                   pendingRestoreRequests, accepted>>
    /\ UNCHANGED registryVars
    /\ UNCHANGED rateVars
    /\ UNCHANGED serviceVars

\* confirm: after respond(), pendingRestoreRequests.delete(userId), on the
\* success, invalid-format and catch paths alike.
RestoreActDelete(t) ==
    /\ tasks[t].handler = "restoreAct" /\ tasks[t].pc = "delete"
    /\ pendingRestoreRequests' = MapDelete(pendingRestoreRequests, tasks[t].user)
    /\ accepted' = Reset("restore", tasks[t].user)
    /\ last' = Did("delete", "restore", tasks[t].user, tasks[t].request,
                   MapGet(pendingRestoreRequests, tasks[t].user))
    /\ tasks' = [tasks EXCEPT ![t] = Idle]
    /\ UNCHANGED <<now, nextSweep, pendingForgetRequests, pendingCleanupRequests, facts>>
    /\ UNCHANGED registryVars
    /\ UNCHANGED rateVars
    /\ UNCHANGED serviceVars

(* ---- creating factoids: "@bot X is Y" ---------------------------------- *)

\* The key X of a mention "X is Y", and its characters as the registry sees them.
MentionKeys == { "hi", "yo", "drupal" }
TextOf(key) ==
    CASE key = "hi"     -> <<"h", "i">>
      [] key = "yo"     -> <<"y", "o">>
      [] key = "drupal" -> <<"d", "r", "u", "p", "a", "l">>

\* isReservedCommand(text): patternRegistry.matchesAnyPattern(text)
IsReservedCommand(text) == MatchesAny(rules, text)

SetFactUnchecked(t, key) ==
    /\ FreeSlot(t)
    /\ tasks' = [tasks EXCEPT ![t] = Task("setFact", "load", None, NoRequest, {}, {key})]
    /\ resolved' = [text |-> TextOf(key), owner |-> None,
                    any |-> IsReservedCommand(TextOf(key))]
    /\ registered' = NotRegistering
    /\ last' = Did("setFact", "factoid", None, NoRequest, NoRequest)
    /\ UNCHANGED <<rules, scan, now, nextSweep, pendingForgetRequests, pendingCleanupRequests,
                   pendingRestoreRequests, facts, accepted>>
    /\ UNCHANGED rateVars
    /\ UNCHANGED serviceVars

\* app_mention handler, "X is Y": return if the key is a reserved command,
\* else go on to await getUser and loadFacts.
SetFact(t, key) ==
    /\ IF IsReservedCommand(TextOf(key))
       THEN UNCHANGED tasks
       ELSE /\ FreeSlot(t)
            /\ tasks' = [tasks EXCEPT ![t] =
                            Task("setFact", "load", None, NoRequest, {}, {key})]
    /\ resolved' = [text |-> TextOf(key), owner |-> None,
                    any |-> IsReservedCommand(TextOf(key))]
    /\ registered' = NotRegistering
    /\ last' = Did("setFact", "factoid", None, NoRequest, NoRequest)
    /\ UNCHANGED <<rules, scan, now, nextSweep, pendingForgetRequests, pendingCleanupRequests,
                   pendingRestoreRequests, facts, accepted>>
    /\ UNCHANGED rateVars
    /\ UNCHANGED serviceVars

\* ... loadFacts; a key that already exists gets the Update/Append prompt
\* instead, a new key is added to the loaded copy.
SetFactLoad(t) ==
    /\ tasks[t].handler = "setFact" /\ tasks[t].pc = "load"
    /\ LET storeKey == CHOOSE k \in tasks[t].keys : TRUE
       IN  IF storeKey \in facts
           THEN /\ tasks' = [tasks EXCEPT ![t] = Idle]
                /\ last' = Said(Did("offer", "factoid", None, NoRequest, NoRequest),
                                "updatePrompt")
           ELSE /\ tasks' = [tasks EXCEPT ![t] =
                                Task("setFact", "save", None, NoRequest,
                                     facts \cup {storeKey}, {storeKey})]
                /\ last' = NoOp
    /\ UNCHANGED <<now, nextSweep, pendingForgetRequests, pendingCleanupRequests,
                   pendingRestoreRequests, facts, accepted>>
    /\ UNCHANGED registryVars
    /\ UNCHANGED rateVars
    /\ UNCHANGED serviceVars

\* ... saveFacts(team, factoids), "Got it!" (or the catch block).
SetFactSave(t, ok) ==
    /\ tasks[t].handler = "setFact" /\ tasks[t].pc = "save"
    /\ facts' = IF ok THEN tasks[t].factoids ELSE facts
    /\ tasks' = [tasks EXCEPT ![t] = Idle]
    /\ last' = NoOp
    /\ UNCHANGED <<now, nextSweep, pendingForgetRequests, pendingCleanupRequests,
                   pendingRestoreRequests, accepted>>
    /\ UNCHANGED registryVars
    /\ UNCHANGED rateVars
    /\ UNCHANGED serviceVars

(* ---- the sweeper and the clock ----------------------------------------- *)

SweptForgetRefresh(m, at) ==
    { <<p[1], [p[2] EXCEPT !.timestamp = at]>> : p \in m }

\* One pass of the setInterval callback over pendingForgetRequests.
SweptForget(m, at) ==
    { p \in m : ~(at - p[2].timestamp > ForgetTtl) }

\* setInterval(() => {...}, 600000)
Sweep ==
    /\ now >= nextSweep
    /\ pendingForgetRequests' = SweptForget(pendingForgetRequests, now)
    /\ nextSweep' = nextSweep + SweepInterval
    /\ last' = Did("sweep", "forget", None, NoRequest, NoRequest)
    /\ UNCHANGED <<now, pendingCleanupRequests, pendingRestoreRequests, facts,
                   tasks, accepted>>
    /\ UNCHANGED registryVars
    /\ UNCHANGED rateVars
    /\ UNCHANGED serviceVars

\* Date.now() moves on; a due interval callback runs before it moves further.
AdvanceTime ==
    /\ now < nextSweep
    /\ now + Tick <= MaxTicks * Tick
    /\ now' = now + Tick
    /\ last' = NoOp
    /\ UNCHANGED <<nextSweep, pendingForgetRequests, pendingCleanupRequests,
                   pendingRestoreRequests, facts, tasks, accepted>>
    /\ UNCHANGED registryVars
    /\ UNCHANGED rateVars
    /\ UNCHANGED serviceVars

(***************************************************************************)
(* Rate limiting (services/rate-limit.ts)                                  *)
(***************************************************************************)

MaxRateTicks == 4

\* Date.now() advances in steps of 30 seconds here.
RateTick == 30000

RateUsers == { <<"U", "1">>, <<"U", "2">> }

\* RATE_LIMITS.addPrompt: 3 submissions per minute per user.
RATE_LIMITS ==
    { [maxRequests |-> 3, windowMs |-> 60000, identifier |-> <<"a", "p">>] }

\* `${options.identifier}:${userId}`
RateKey(identifier, userId) == identifier \o <<":">> \o userId

RateLimitEntry(count, resetTime) == [count |-> count, resetTime |-> resetTime]

\* The calls for (identifier, user) that were allowed less than windowMs before `at`.
GrantedWithin(log, at, windowMs) ==
    SelectSeq(log, LAMBDA t : at - t < windowMs)

\* How many calls of one window the model follows.
MaxWindowCalls == 4

\* setInterval(cleanupExpiredEntries, 5 * 60 * 1000)
CleanupInterval == 300000

NoCheck == [userId |-> <<>>, identifier |-> <<>>, ret |-> TRUE, remaining |-> 0]

\* Math.ceil(ms / 1000) for ms >= 0
CeilSeconds(ms) == (ms + 999) \div 1000

CheckRateLimitOnLax(store, userId, options) ==
    LET key == RateKey(options.identifier, userId)
        entry == MapGet(store, key)
    IN  IF entry = NoRequest \/ now > entry.resetTime
        THEN [ret |-> TRUE,
              store |-> MapSet(store, key, RateLimitEntry(1, now + options.windowMs))]
        ELSE IF entry.count > options.maxRequests
        THEN [ret |-> FALSE, store |-> store]
        ELSE [ret |-> TRUE,
              store |-> MapSet(store, key,
                               RateLimitEntry(entry.count + 1, entry.resetTime))]

CheckRateLimitOnExtending(store, userId, options) ==
    LET key == RateKey(options.identifier, userId)
        entry == MapGet(store, key)
    IN  IF entry = NoRequest \/ now > entry.resetTime
        THEN [ret |-> TRUE,
              store |-> MapSet(store, key, RateLimitEntry(1, now + options.windowMs))]
        ELSE IF entry.count >= options.maxRequests
        THEN [ret |-> FALSE,
              store |-> MapSet(store, key,
                               RateLimitEntry(entry.count, now + options.windowMs))]
        ELSE [ret |-> TRUE,
              store |-> MapSet(store, key,
                               RateLimitEntry(entry.count + 1, entry.resetTime))]

\* The body of checkRateLimit on a given content of the Map: what it returns
\* and the content it leaves.
CheckRateLimitOn(store, userId, options) ==
    LET key == RateKey(options.identifier, userId)
        entry == MapGet(store, key)
    IN  IF entry = NoRequest \/ now > entry.resetTime
        THEN [ret |-> TRUE,
              store |-> MapSet(store, key, RateLimitEntry(1, now + options.windowMs))]
        ELSE IF entry.count >= options.maxRequests
        THEN [ret |-> FALSE, store |-> store]
        ELSE [ret |-> TRUE,
              store |-> MapSet(store, key,
                               RateLimitEntry(entry.count + 1, entry.resetTime))]

\* getRemainingTime(userId, identifier) on a given content of the Map
GetRemainingTime(store, userId, identifier) ==
    LET entry == MapGet(store, RateKey(identifier, userId))
    IN  IF entry = NoRequest THEN 0
        ELSE IF now > entry.resetTime THEN 0
        ELSE CeilSeconds(entry.resetTime - now)

\* checkRateLimit(userId, options)
CheckRateLimit(userId, options) ==
    LET key == RateKey(options.identifier, userId)
        entry == MapGet(rateLimitStore, key)
        opens == IF entry = NoRequest THEN TRUE ELSE now > entry.resetTime
        real == CheckRateLimitOn(rateLimitStore, userId, options)
        plain == CheckRateLimitOn(uncleaned, userId, options)
    IN  /\ IF opens THEN TRUE
           ELSE Len(window[options.identifier][userId]) < MaxWindowCalls
        /\ rateLimitStore' = real.store
        /\ uncleaned' = plain.store
        /\ granted' = IF real.ret
                       THEN [granted EXCEPT ![options.identifier][userId] = Append(@, now)]
                       ELSE granted
        /\ window' = [window EXCEPT ![options.identifier][userId] =
                          IF opens THEN <<TRUE>> ELSE Append(@, real.ret)]
        /\ rateLast' = [userId |-> userId, identifier |-> options.identifier,
                        ret |-> real.ret,
                        remaining |-> GetRemainingTime(real.store, userId,
                                                       options.identifier)]
        /\ UNCHANGED lastCleanup
        /\ UNCHANGED storeVars
        /\ UNCHANGED registryVars
        /\ UNCHANGED serviceVars

CleanupExpiredEntriesEager ==
    /\ IF lastCleanup < 0 THEN TRUE ELSE now >= lastCleanup + CleanupInterval
    /\ rateLimitStore' = { p \in rateLimitStore : ~(now >= p[2].resetTime) }
    /\ lastCleanup' = now
    /\ UNCHANGED <<granted, uncleaned, window, rateLast>>
    /\ UNCHANGED storeVars
    /\ UNCHANGED registryVars
    /\ UNCHANGED serviceVars

\* cleanupExpiredEntries(), run by the interval timer; the timer's phase
\* against the calls is not fixed.
CleanupExpiredEntries ==
    /\ IF lastCleanup < 0 THEN TRUE ELSE now >= lastCleanup + CleanupInterval
    /\ rateLimitStore' = { p \in rateLimitStore : ~(now > p[2].resetTime) }
    /\ lastCleanup' = now
    /\ UNCHANGED <<granted, uncleaned, window, rateLast>>
    /\ UNCHANGED storeVars
    /\ UNCHANGED registryVars
    /\ UNCHANGED serviceVars

\* Date.now() moves on between calls.
RateAdvance ==
    /\ now + RateTick <= MaxRateTicks * RateTick
    /\ now' = now + RateTick
    /\ granted' = [o \in DOMAIN granted |->
                      [u \in RateUsers |->
                          GrantedWithin(granted[o][u], now + RateTick,
                                        (CHOOSE l \in RATE_LIMITS : l.identifier = o).windowMs)]]
    /\ UNCHANGED <<nextSweep, pendingForgetRequests, pendingCleanupRequests,
                   pendingRestoreRequests, facts, tasks, accepted, last>>
    /\ UNCHANGED <<rateLimitStore, uncleaned, window, rateLast, lastCleanup>>
    /\ UNCHANGED registryVars
    /\ UNCHANGED serviceVars

(***************************************************************************)
(* Plugin enablement (services/plugin-registry.ts)                         *)
(***************************************************************************)

MaxEnvLen == 4

\* Characters of ENABLED_PLUGINS values: two letters, the comma, the blank.
EnvChars == { "k", "f", ",", " " }

EnvValues == UNION { [1..n -> EnvChars] : n \in 0..MaxEnvLen }

\* process.env.ENABLED_PLUGINS: undefined, or a string.
Unset == [set |-> FALSE, value |-> <<>>]
EnvSet(value) == [set |-> TRUE, value |-> value]

\* Plugin file names handed to isPluginEnabled.
PluginFiles ==
    { <<"k">>, <<"k", ".", "t", "s">>, <<"f", ".", "j", "s">>,
      <<"k", "f", ".", "t", "s">>, <<"k", ".", "t", "s", ".", "j", "s">>,
      <<".", "t", "s">>, <<"k", ".", "t">> }

\* this.enabledPlugins: null (all enabled), or the Set's members in insertion order.
AllEnabled == [all |-> TRUE, names |-> <<>>]
Only(names) == [all |-> FALSE, names |-> names]

Range(seq) == { seq[i] : i \in 1..Len(seq) }

\* String.prototype.split(',')
RECURSIVE Split(_)
Split(str) ==
    IF \A i \in 1..Len(str) : str[i] # ","
    THEN << str >>
    ELSE LET i == CHOOSE c \in 1..Len(str) :
                      str[c] = "," /\ \A d \in 1..(c - 1) : str[d] # ","
         IN  << SubSeq(str, 1, i - 1) >> \o Split(SubSeq(str, i + 1, Len(str)))

RECURSIVE TrimStart(_)
TrimStart(str) ==
    IF str # <<>> /\ str[1] = " " THEN TrimStart(Tail(str)) ELSE str

RECURSIVE TrimEnd(_)
TrimEnd(str) ==
    IF str # <<>> /\ str[Len(str)] = " "
    THEN TrimEnd(SubSeq(str, 1, Len(str) - 1)) ELSE str

TrimStartOnly(str) == TrimStart(str)

\* String.prototype.trim()
Trim(str) == TrimEnd(TrimStart(str))

\* .map(p => p.trim()).filter(p => p.length > 0)
TrimmedNonEmpty(items) ==
    SelectSeq([i \in 1..Len(items) |-> Trim(items[i])], LAMBDA p : Len(p) > 0)

\* new Set(pluginList): members in order of first insertion.
RECURSIVE NewSet(_)
NewSet(list) ==
    IF list = <<>> THEN <<>>
    ELSE LET front == NewSet(SubSeq(list, 1, Len(list) - 1))
             x == list[Len(list)]
         IN  IF x \in Range(front) THEN front ELSE Append(front, x)

\* pluginFileName.replace(/\.(ts|js)$/, '')
StripExtension(file) ==
    LET n == Len(file)
    IN  IF /\ n >= 3
           /\ SubSeq(file, n - 2, n) \in { <<".", "t", "s">>, <<".", "j", "s">> }
        THEN SubSeq(file, 1, n - 3)
        ELSE file

NoAnswer == [op |-> "none", file |-> <<>>, enabled |-> FALSE, list |-> AllEnabled]

\* new PluginRegistry() with ENABLED_PLUGINS as given: the singleton is built
\* once, at module load, before any call is made on it.
NewPluginRegistry(env) ==
    /\ pluginEnv = Unset /\ pluginAnswer = NoAnswer
    /\ pluginEnv' = env
    /\ enabledPlugins' =
          IF env.set /\ env.value # <<>>
          THEN Only(NewSet(TrimmedNonEmpty(Split(env.value))))
          ELSE AllEnabled
    /\ pluginAnswer' = NoAnswer
    /\ UNCHANGED storeVars
    /\ UNCHANGED registryVars
    /\ UNCHANGED rateVars
    /\ UNCHANGED llmVars

\* isPluginEnabled(pluginFileName)
IsPluginEnabled(pluginFileName) ==
    LET pluginName == StripExtension(pluginFileName)
    IN  /\ pluginAnswer' =
              [op |-> "isPluginEnabled", file |-> pluginFileName,
               enabled |-> IF enabledPlugins.all THEN TRUE
                           ELSE pluginName \in Range(enabledPlugins.names),
               list |-> AllEnabled]
        /\ UNCHANGED <<pluginEnv, enabledPlugins>>
        /\ UNCHANGED storeVars
        /\ UNCHANGED registryVars
        /\ UNCHANGED rateVars
        /\ UNCHANGED llmVars
    /\ UNCHANGED llmVars

\* getEnabledPlugins(): null, or Array.from(this.enabledPlugins)
GetEnabledPlugins ==
    /\ pluginAnswer' = [op |-> "getEnabledPlugins", file |-> <<>>, enabled |-> FALSE,
                        list |-> enabledPlugins]
    /\ UNCHANGED <<pluginEnv, enabledPlugins>>
    /\ UNCHANGED storeVars
    /\ UNCHANGED registryVars
    /\ UNCHANGED rateVars
    /\ UNCHANGED llmVars

(***************************************************************************)
(* Local LLM service (LocalLlmService.ts and its worker process)           *)
(***************************************************************************)

\* Worker processes forked in one run.
MaxForks == 2
WorkerIds == 1..MaxForks

\* A worker not forked yet.  phase: "started" (forked), "loading" (it has been
\* sent 'initialize'), "up" / "failed" (initializationComplete handled),
\* "exited"; exitedIn and code: the phase it exited in and its exit code.
NotForked == [phase |-> "unforked", promise |-> "none", exitedIn |-> "none", code |-> 0]
Running == { "started", "loading", "up", "failed" }
ExitCodes == { 0, 1 }

\* generateResponse calls made in one run.
MaxCalls == 2
CallIds == 1..MaxCalls

\* A generateResponse call not made yet.  pc: "awaitInit" (awaiting the
\* initializeModel it started; waitsOn: the worker forked for it, 0 if none),
\* "sent", "done"; promise: "running" until the request's Promise exists, then
\* "pending", at the end "resolved", "rejected" or "fallback" (a fallback
\* message was returned); settled: how often resolve / reject were called;
\* msg: the prompt at the worker, "inflight" until that worker has answered;
\* answeredBy: the call whose prompt the response that settled it answers.
NotCalled == [pc |-> "idle", waitsOn |-> 0, id |-> 0, sentTo |-> 0, promise |-> "none",
              settled |-> 0, timer |-> "none", msg |-> "none", answeredBy |-> 0]

\* request.resolve / request.reject
SettleCall(call, outcome) ==
    [call EXCEPT !.promise = IF @ = "pending" THEN outcome ELSE @,
                 !.settled = IF @ >= 2 THEN 2 ELSE @ + 1]

\* generateRequestId(): `req-${requestIdCounter++}`
GenerateRequestId == requestIdCounter

\* resolve() / reject() of a promise: only a pending promise is settled.
Settle(promise, outcome) == IF promise = "pending" THEN outcome ELSE promise

\* initializeModel(): nothing to do when initialized, a polling promise while
\* an initialization is in progress, else fork the worker and attach its handlers.
InitializeModel ==
    /\ \/ /\ isInitialized
          /\ UNCHANGED <<llmWorker, isInitializing, workers, initWaiter>>
       \/ /\ ~isInitialized /\ isInitializing
          /\ initWaiter # "pending"
          /\ initWaiter' = "pending"
          /\ UNCHANGED <<llmWorker, isInitializing, workers>>
       \/ /\ ~isInitialized /\ ~isInitializing
          /\ \E w \in WorkerIds :
                /\ workers[w] = NotForked
                /\ \A v \in WorkerIds : v < w => workers[v] # NotForked
                /\ workers' = [workers EXCEPT ![w] = [NotForked EXCEPT !.phase = "started",
                                                                        !.promise = "pending"]]
                /\ llmWorker' = w
          /\ isInitializing' = TRUE
          /\ UNCHANGED initWaiter
    /\ UNCHANGED isInitialized
    /\ UNCHANGED promptVars
    /\ UNCHANGED pluginVars
    /\ UNCHANGED storeVars
    /\ UNCHANGED registryVars
    /\ UNCHANGED rateVars

\* setInterval of a waiting initializeModel call: resolve once isInitialized.
InitPoll ==
    /\ initWaiter = "pending" /\ isInitialized
    /\ initWaiter' = "resolved"
    /\ UNCHANGED <<llmWorker, isInitializing, isInitialized, workers>>
    /\ UNCHANGED promptVars
    /\ UNCHANGED pluginVars
    /\ UNCHANGED storeVars
    /\ UNCHANGED registryVars
    /\ UNCHANGED rateVars

\* on('message'), type 'workerReady': llmWorker?.send({ action: 'initialize' })
OnWorkerReady(w) ==
    /\ workers[w].phase = "started"
    /\ workers' = [workers EXCEPT ![w].phase = "loading"]
    /\ UNCHANGED <<llmWorker, isInitializing, isInitialized, initWaiter>>
    /\ UNCHANGED promptVars
    /\ UNCHANGED pluginVars
    /\ UNCHANGED storeVars
    /\ UNCHANGED registryVars
    /\ UNCHANGED rateVars

\* on('message'), type 'initializationComplete'
OnInitializationComplete(w, success) ==
    /\ workers[w].phase = "loading"
    /\ IF success
       THEN /\ isInitialized' = TRUE
            /\ workers' = [workers EXCEPT ![w].phase = "up",
                                          ![w].promise = Settle(@, "resolved")]
       ELSE /\ UNCHANGED isInitialized
            /\ workers' = [workers EXCEPT ![w].phase = "failed",
                                          ![w].promise = Settle(@, "rejected")]
    /\ isInitializing' = FALSE
    /\ UNCHANGED <<llmWorker, initWaiter>>
    /\ UNCHANGED promptVars
    /\ UNCHANGED pluginVars
    /\ UNCHANGED storeVars
    /\ UNCHANGED registryVars
    /\ UNCHANGED rateVars

\* on('error')
OnError(w) ==
    /\ workers[w].phase \in Running
    /\ isInitializing' = FALSE
    /\ isInitialized' = FALSE
    /\ workers' = [workers EXCEPT ![w].promise = Settle(@, "rejected")]
    /\ UNCHANGED <<llmWorker, initWaiter>>
    /\ UNCHANGED promptVars
    /\ UNCHANGED pluginVars
    /\ UNCHANGED storeVars
    /\ UNCHANGED registryVars
    /\ UNCHANGED rateVars

\* on('exit'): the flags are cleared first, and the test that guards reject()
\* reads them after that.
OnExit(w, code) ==
    /\ workers[w].phase \in Running
    /\ isInitializing' = FALSE
    /\ isInitialized' = FALSE
    /\ llmWorker' = 0
    /\ workers' = [workers EXCEPT
                      ![w].phase = "exited", ![w].exitedIn = workers[w].phase,
                      ![w].code = code,
                      ![w].promise = IF code # 0 /\ isInitializing' /\ ~isInitialized'
                                     THEN Settle(@, "rejected") ELSE @]
    /\ calls' = [c \in CallIds |->
                    IF \E p \in pendingRequests : p[2].call = c
                    THEN SettleCall(calls[c], "rejected") ELSE calls[c]]
    /\ pendingRequests' = {}
    /\ UNCHANGED <<initWaiter, requestIdCounter>>
    /\ UNCHANGED pluginVars
    /\ UNCHANGED storeVars
    /\ UNCHANGED registryVars
    /\ UNCHANGED rateVars

\* The end of generateResponse: the request id, the prompt sent to llmWorker,
\* the 30-second timer, pendingRequests.set.
SendPrompt(c) ==
    /\ calls' = [calls EXCEPT ![c] = [@ EXCEPT !.pc = "sent", !.id = GenerateRequestId,
                                               !.sentTo = llmWorker, !.promise = "pending",
                                               !.timer = "armed", !.msg = "inflight"]]
    /\ requestIdCounter' = requestIdCounter + 1
    /\ pendingRequests' = MapSet(pendingRequests, GenerateRequestId, [call |-> c])

\* generateResponse(userPrompt) up to its first await or its return.
GenerateResponse(c) ==
    /\ calls[c].pc = "idle"
    /\ \A d \in CallIds : d < c => calls[d].pc # "idle"
    /\ IF ~isInitialized \/ llmWorker = 0
       THEN IF ~isInitializing
            THEN \* await initializeModel()
                 /\ IF isInitialized
                    THEN /\ calls' = [calls EXCEPT ![c].pc = "awaitInit",
                                                   ![c].promise = "running"]
                         /\ UNCHANGED <<llmWorker, isInitializing, workers>>
                    ELSE /\ \E w \in WorkerIds :
                              /\ workers[w] = NotForked
                              /\ \A v \in WorkerIds : v < w => workers[v] # NotForked
                              /\ workers' = [workers EXCEPT ![w] =
                                                [NotForked EXCEPT !.phase = "started",
                                                                  !.promise = "pending"]]
                              /\ llmWorker' = w
                              /\ calls' = [calls EXCEPT ![c].pc = "awaitInit",
                                                        ![c].promise = "running",
                                                        ![c].waitsOn = w]
                         /\ isInitializing' = TRUE
                 /\ UNCHANGED <<pendingRequests, requestIdCounter>>
            ELSE \* 'LLM service is initializing. Please try again shortly.'
                 /\ calls' = [calls EXCEPT ![c].pc = "done", ![c].promise = "fallback"]
                 /\ UNCHANGED <<llmWorker, isInitializing, workers,
                                pendingRequests, requestIdCounter>>
       ELSE /\ SendPrompt(c)
            /\ UNCHANGED <<llmWorker, isInitializing, workers>>
    /\ UNCHANGED <<isInitialized, initWaiter>>
    /\ UNCHANGED pluginVars
    /\ UNCHANGED storeVars
    /\ UNCHANGED registryVars
    /\ UNCHANGED rateVars

\* generateResponse once the awaited initializeModel() has settled: the catch
\* block, the second readiness check, or the request.
GenerateResume(c) ==
    /\ calls[c].pc = "awaitInit"
    /\ LET awaited == IF calls[c].waitsOn = 0 THEN "resolved"
                      ELSE workers[calls[c].waitsOn].promise
       IN  /\ awaited \in {"resolved", "rejected"}
           /\ IF awaited = "rejected" \/ ~isInitialized \/ llmWorker = 0
              THEN /\ calls' = [calls EXCEPT ![c].pc = "done", ![c].promise = "fallback"]
                   /\ UNCHANGED <<pendingRequests, requestIdCounter>>
              ELSE SendPrompt(c)
    /\ UNCHANGED <<llmWorker, isInitializing, isInitialized, workers, initWaiter>>
    /\ UNCHANGED pluginVars
    /\ UNCHANGED storeVars
    /\ UNCHANGED registryVars
    /\ UNCHANGED rateVars

\* on('message'), type 'promptResponse': the worker the prompt of call c was
\* sent to answers it (error: handlePrompt failed or has no model).
OnPromptResponse(c, error) ==
    /\ calls[c].msg = "inflight"
    /\ workers[calls[c].sentTo].phase \in Running
    /\ LET request == MapGet(pendingRequests, calls[c].id)
       IN  /\ calls' = [d \in CallIds |->
                           LET seen == IF d = c THEN [calls[d] EXCEPT !.msg = "answered"]
                                       ELSE calls[d]
                           IN  IF request # NoRequest /\ request.call = d
                               THEN [SettleCall(seen, IF error THEN "rejected" ELSE "resolved")
                                        EXCEPT !.timer = IF @ = "armed" THEN "cleared" ELSE @,
                                               !.answeredBy = c]
                               ELSE seen]
           /\ pendingRequests' = IF request # NoRequest
                                  THEN MapDelete(pendingRequests, calls[c].id)
                                  ELSE pendingRequests
    /\ UNCHANGED <<llmWorker, isInitializing, isInitialized, workers, initWaiter,
                   requestIdCounter>>
    /\ UNCHANGED pluginVars
    /\ UNCHANGED storeVars
    /\ UNCHANGED registryVars
    /\ UNCHANGED rateVars

OnTimeoutUnchecked(c) ==
    /\ calls[c].timer = "armed"
    /\ pendingRequests' = MapDelete(pendingRequests, calls[c].id)
    /\ calls' = [calls EXCEPT ![c] = [SettleCall(@, "rejected") EXCEPT !.timer = "fired"]]
    /\ UNCHANGED <<llmWorker, isInitializing, isInitialized, workers, initWaiter,
                   requestIdCounter>>
    /\ UNCHANGED pluginVars
    /\ UNCHANGED storeVars
    /\ UNCHANGED registryVars
    /\ UNCHANGED rateVars

\* The setTimeout callback of a request, 30 seconds after it was sent.
OnTimeout(c) ==
    /\ calls[c].timer = "armed"
    /\ IF MapGet(pendingRequests, calls[c].id) # NoRequest
       THEN /\ pendingRequests' = MapDelete(pendingRequests, calls[c].id)
            /\ calls' = [calls EXCEPT ![c] = [SettleCall(@, "rejected")
                                                EXCEPT !.timer = "fired"]]
       ELSE /\ UNCHANGED pendingRequests
            /\ calls' = [calls EXCEPT ![c].timer = "fired"]
    /\ UNCHANGED <<llmWorker, isInitializing, isInitialized, workers, initWaiter,
                   requestIdCounter>>
    /\ UNCHANGED pluginVars
    /\ UNCHANGED storeVars
    /\ UNCHANGED registryVars
    /\ UNCHANGED rateVars

(* ---- specifications ----------------------------------------------------- *)

\* Module load: empty rule list, three empty maps, the interval timer armed.
Init ==
    /\ rules = <<>>
    /\ resolved = NoCall
    /\ registered = NotRegistering
    /\ scan = NoScan
    /\ now = 0
    /\ nextSweep = SweepInterval
    /\ pendingForgetRequests = {}
    /\ pendingCleanupRequests = {}
    /\ pendingRestoreRequests = {}
    /\ facts = FactKeys
    /\ tasks = [t \in TaskIds |-> Idle]
    /\ accepted = [k \in Kinds |-> [u \in Users |-> 0]]
    /\ last = NoOp
    /\ rateLimitStore = {}
    /\ pluginEnv = Unset
    /\ enabledPlugins = AllEnabled
    /\ pluginAnswer = NoAnswer
    /\ llmWorker = 0
    /\ isInitializing = FALSE
    /\ isInitialized = FALSE
    /\ workers = [w \in WorkerIds |-> NotForked]
    /\ initWaiter = "none"
    /\ pendingRequests = {}
    /\ requestIdCounter = 0
    /\ calls = [c \in CallIds |-> NotCalled]
    /\ granted = [o \in { l.identifier : l \in RATE_LIMITS } |-> [u \in RateUsers |-> <<>>]]
    /\ uncleaned = {}
    /\ window = [o \in { l.identifier : l \in RATE_LIMITS } |-> [u \in RateUsers |-> <<>>]]
    /\ rateLast = NoCheck
    /\ lastCleanup = -1

\* S: the outcomes of the say() that posts the prompt (TRUE: delivered).
ForgetFlow(U, T, K, S) ==
    \/ \E t \in T, u \in U, key \in K : ForgetCommand(t, u, key)
    \/ \E t \in T, said \in S : ForgetCmdSet(t, said)
    \/ \E t \in T, u \in U, text \in {"YES", "NO"} : YesNoMessage(t, u, text)
    \/ \E t \in T : ForgetLoad(t)
    \/ \E t \in T, ok \in BOOLEAN : ForgetSave(t, ok)

CleanupFlow(U, T) ==
    \/ \E t \in T, u \in U : CleanupCommand(t, u)
    \/ \E t \in T, ok \in BOOLEAN : CleanupCmdSet(t, ok)
    \/ \E t \in T, u \in U, choice \in {"confirm", "cancel"} : CleanupAction(t, u, choice)
    \/ \E t \in T, ok \in BOOLEAN : CleanupActLoad(t, ok)
    \/ \E t \in T, ok \in BOOLEAN : CleanupActSave(t, ok)
    \/ \E t \in T, ok \in BOOLEAN : CleanupActDelete(t, ok)

RestoreFlow(U, T, F, S) ==
    \/ \E u \in U, f \in F, ok \in BOOLEAN, said \in S : RestoreCommand(u, f, ok, said)
    \/ \E t \in T, u \in U, choice \in {"confirm", "cancel"} : RestoreAction(t, u, choice)
    \/ \E t \in T, outcome \in {"ok", "invalid", "error"} : RestoreActRead(t, outcome)
    \/ \E t \in T, ok \in BOOLEAN : RestoreActSave(t, ok)
    \/ \E t \in T : RestoreActDelete(t)

\* All users and kinds, one handler in flight at a time, every prompt
\* delivered, within one clock reading.
Next ==
    \/ ForgetFlow(Users, {1}, {"drupal"}, {TRUE})
    \/ CleanupFlow(Users, {1})
    \/ RestoreFlow(Users, {1}, {"bk2", "missing"}, {TRUE})

Spec == Init /\ [][Next]_vars

\* One user's flows, one handler at a time, where posting a prompt can fail.
NextPrompt ==
    \/ ForgetFlow({"U1"}, {1}, {"drupal"}, BOOLEAN)
    \/ CleanupFlow({"U1"}, {1})
    \/ RestoreFlow({"U1"}, {1}, {"bk2"}, BOOLEAN)

SpecPrompt == Init /\ [][NextPrompt]_vars

\* One user's flows, one handler at a time, every prompt delivered, with the
\* clock and the sweeper.
NextExpiry ==
    \/ ForgetFlow({"U1"}, {1}, {"drupal"}, {TRUE})
    \/ CleanupFlow({"U1"}, {1})
    \/ RestoreFlow({"U1"}, {1}, {"bk2"}, {TRUE})
    \/ Sweep
    \/ AdvanceTime

SpecExpiry == Init /\ [][NextExpiry]_vars

\* One user's flows with two handlers in flight, every prompt delivered,
\* within one clock reading.
NextRace ==
    \/ ForgetFlow({"U1"}, TaskIds, {"drupal"}, {TRUE})
    \/ CleanupFlow({"U1"}, TaskIds)
    \/ RestoreFlow({"U1"}, TaskIds, BackupFiles, {TRUE})

SpecRace == Init /\ [][NextRace]_vars

\* Abandoned flows: requests are made and nobody ever answers them; the clock
\* runs and the interval timer keeps firing.
NextAbandoned ==
    \/ ForgetCommand(1, "U1", "drupal")
    \/ \E said \in BOOLEAN : ForgetCmdSet(1, said)
    \/ CleanupCommand(1, "U1")
    \/ \E ok \in BOOLEAN : CleanupCmdSet(1, ok)
    \/ \E ok, said \in BOOLEAN : RestoreCommand("U1", "bk2", ok, said)
    \/ Sweep
    \/ AdvanceTime

SpecAbandoned ==
    Init /\ [][NextAbandoned]_vars /\ WF_vars(Sweep) /\ WF_vars(AdvanceTime)

NextRegistry ==
    \/ \E p \in Patterns, o \in Owners, pr \in Priorities, x \in BOOLEAN :
            Register(p, o, pr, x)
    \/ \E p \in BadPatterns, o \in Owners : Register(p, o, 4, FALSE)
    \/ \E text \in Texts : ResolveCall(text)

SpecRegistry == Init /\ [][NextRegistry]_vars

NextRate ==
    \/ \E u \in RateUsers, options \in RATE_LIMITS : CheckRateLimit(u, options)
    \/ CleanupExpiredEntries
    \/ RateAdvance

SpecRate == Init /\ [][NextRate]_vars

NextPlugins ==
    \/ \E env \in {Unset} \cup { EnvSet(v) : v \in EnvValues } : NewPluginRegistry(env)
    \/ \E file \in PluginFiles : IsPluginEnabled(file)
    \/ GetEnabledPlugins

SpecPlugins == Init /\ [][NextPlugins]_vars

\* Mentions of the form "X is Y" while modules register their patterns.
NextReserved ==
    \/ \E p \in Patterns, x \in BOOLEAN : Register(p, "llm", 4, x)
    \/ \E text \in Texts : ResolveCall(text)
    \/ \E key \in MentionKeys : SetFact(1, key)
    \/ SetFactLoad(1)
    \/ \E ok \in BOOLEAN : SetFactSave(1, ok)

SpecReserved == Init /\ [][NextReserved]_vars

\* The LLM service: calls of initializeModel and the events of the workers.
NextLlm ==
    \/ InitializeModel
    \/ InitPoll
    \/ \E w \in WorkerIds : OnWorkerReady(w)
    \/ \E w \in WorkerIds, success \in BOOLEAN : OnInitializationComplete(w, success)
    \/ \E w \in WorkerIds : OnError(w)
    \/ \E w \in WorkerIds, code \in ExitCodes : OnExit(w, code)

SpecLlm == Init /\ [][NextLlm]_vars

\* A step of a worker process or of a timer.
WorkerStep ==
    \/ \E w \in WorkerIds : OnWorkerReady(w)
    \/ \E w \in WorkerIds, success \in BOOLEAN : OnInitializationComplete(w, success)
    \/ \E w \in WorkerIds : OnError(w)
    \/ \E w \in WorkerIds, code \in ExitCodes : OnExit(w, code)
    \/ \E c \in CallIds, error \in BOOLEAN : OnPromptResponse(c, error)

\* generateResponse calls and the events of the workers they start and use.
NextGenerate ==
    \/ \E c \in CallIds : GenerateResponse(c)
    \/ \E c \in CallIds : GenerateResume(c)
    \/ \E c \in CallIds : OnTimeout(c)
    \/ WorkerStep

\* Continuations run once the promise they await has settled, timers fire,
\* and a worker that can act or exit does so at some time.
SpecGenerate ==
    /\ Init /\ [][NextGenerate]_vars
    /\ \A c \in CallIds : WF_vars(GenerateResume(c)) /\ WF_vars(OnTimeout(c))
    /\ WF_vars(WorkerStep)

\* Mentions "X is Y" for new keys, handled by two handler invocations at a
\* time; no pattern is registered.
NextCreate ==
    \/ \E t \in TaskIds, key \in {"hi", "yo"} : SetFact(t, key)
    \/ \E t \in TaskIds : SetFactLoad(t)
    \/ \E t \in TaskIds, ok \in BOOLEAN : SetFactSave(t, ok)

SpecCreate == Init /\ [][NextCreate]_vars

\* Registrations running while Resolve / MatchesAny calls are in progress.
NextScan ==
    \/ \E p \in Patterns, o \in Owners, x \in BOOLEAN :
            Register(p, o, IF o = "llm" THEN 4 ELSE 1, x)
    \/ \E text \in Texts : ResolveBegin(text)
    \/ ResolveEnd

SpecScan == Init /\ [][NextScan]_vars

(***************************************************************************)
(* Properties of the pattern dispatch registry (under SpecRegistry)        *)
(***************************************************************************)

\* The rules matching the text of the last Resolve call.
ResolvedMatches == MatchingRules(rules, resolved.text)

\* C1. Exclusivity override: whenever some rule matching the text is
\* exclusive, Resolve returns the owner of an exclusive matching rule, whatever
\* the priorities of the non-exclusive matching rules.
C1_ExclusivityOverride ==
    (resolved # NoCall /\ \E i \in ResolvedMatches : rules[i].exclusive)
        => \E i \in ResolvedMatches :
                rules[i].exclusive /\ rules[i].owner = resolved.owner

\* An exclusive rule of priority 1 has beaten a non-exclusive rule of priority
\* 100 of another owner that matches the same text.
C1_Witness ==
    /\ resolved # NoCall
    /\ \E i, j \in ResolvedMatches :
          /\ rules[i].exclusive /\ rules[i].priority = 4
          /\ ~rules[j].exclusive /\ rules[j].priority = 400
          /\ rules[i].owner # rules[j].owner
          /\ resolved.owner = rules[i].owner
    /\ \A i \in ResolvedMatches : rules[i].exclusive => rules[i].priority = 4

\* C2. Priority ordering: when no rule matching the text is exclusive, Resolve
\* returns the owner of a matching rule whose priority is the greatest among
\* the matching rules, wherever in the registration order that rule stands.
C2_PriorityOrdering ==
    (/\ resolved # NoCall
     /\ ResolvedMatches # {}
     /\ \A i \in ResolvedMatches : ~rules[i].exclusive)
        => \E i \in ResolvedMatches :
              /\ rules[i].owner = resolved.owner
              /\ \A j \in ResolvedMatches : rules[i].priority >= rules[j].priority

\* A rule of priority 1 registered after a rule of priority 0.25 of another
\* owner has won a text both match.
C2_Witness ==
    /\ resolved # NoCall
    /\ \A i \in ResolvedMatches : ~rules[i].exclusive
    /\ \E i, j \in ResolvedMatches :
          /\ i < j
          /\ rules[i].priority = 1 /\ rules[j].priority = 4
          /\ rules[i].owner # rules[j].owner
          /\ \A k \in ResolvedMatches : rules[k].priority <= 4
          /\ resolved.owner = rules[j].owner

\* The rules of the deciding class that share its highest priority.
TopRules(rs, text) ==
    LET d == DecidingRules(rs, text)
    IN  { i \in d : \A j \in d : rs[i].priority >= rs[j].priority }

\* C3. Tie-break: when several rules of the deciding class share its highest
\* priority, Resolve returns the owner of the one registered first; the result
\* depends on the rule list and the text alone, so a repeated call returns it again.
C3_TieBreakFirstRegistered ==
    (resolved # NoCall /\ Cardinality(TopRules(rules, resolved.text)) >= 2)
        => LET top == TopRules(rules, resolved.text)
               first == CHOOSE i \in top :
                            \A j \in top : rules[i].registrationOrder <= rules[j].registrationOrder
           IN  resolved.owner = rules[first].owner

\* Two rules of different owners tie at the top and the first registered won.
C3_Witness ==
    /\ resolved # NoCall
    /\ \E i, j \in TopRules(rules, resolved.text) :
          /\ i < j
          /\ rules[i].owner # rules[j].owner
          /\ \A k \in TopRules(rules, resolved.text) : i <= k
          /\ resolved.owner = rules[i].owner

(***************************************************************************)
(* Properties of the pending-action flows                                  *)
(***************************************************************************)

StoreOps == { "create", "get", "confirm", "cancel", "delete" }

\* The entry of (user, kind) after the step.
PendingAfter(kind, user) ==
    CASE kind = "forget"  -> MapGet(pendingForgetRequests', user)
      [] kind = "cleanup" -> MapGet(pendingCleanupRequests', user)
      [] kind = "restore" -> MapGet(pendingRestoreRequests', user)

\* C4. Latest request wins: a Create stores its entry whatever the key held
\* before (no error, no queue), an entry enters the map only by the Create
\* that carries it, and Confirm/Cancel are handed the entry the key holds, so
\* after Create A, Create B a Confirm is handed B and A is never handed out again.
C4_LatestRequestWins ==
    [][ /\ last'.op = "create" => PendingAfter(last'.kind, last'.user) = last'.ret
        /\ last'.op \in {"confirm", "cancel"} =>
              last'.ret = Pending(last'.kind, last'.user)
        /\ \A k \in Kinds, u \in Users :
              (PendingAfter(k, u) # Pending(k, u) /\ PendingAfter(k, u) # NoRequest) =>
                  Said(last', "none") = Did("create", k, u, PendingAfter(k, u), Pending(k, u))
      ]_vars

\* With no handler in flight, a second Create has replaced the pending,
\* unconfirmed entry A (restore bk1) by B (restore bk2).
C4_Witness ==
    /\ last.op = "create" /\ last.kind = "restore"
    /\ last.old # NoRequest /\ last.old.backupFile = "bk1"
    /\ last.ret.backupFile = "bk2"
    /\ MapGet(pendingRestoreRequests, last.user) = last.ret
    /\ \A t \in TaskIds : tasks[t].handler = "idle"

\* C5. Isolation between keys: a Create, Get, Confirm, Cancel or the delete
\* that ends a confirm on key (u,k) leaves the entry, or the absence of an
\* entry, of every other key unchanged; steps that are none of these (loading
\* and saving factoids) leave all keys unchanged.
C5_KeyIsolation ==
    [][ \A k \in Kinds, u \in Users :
            (last'.op \in StoreOps \cup {"none", "execute"}
             /\ ~(last'.op \in StoreOps /\ k = last'.kind /\ u = last'.user))
                => PendingAfter(k, u) = Pending(k, u)
      ]_vars

\* U1's forget request was confirmed while U1's cleanup request and U2's
\* forget request were pending, and both are still there.
C5_Witness ==
    /\ last.op = "confirm" /\ last.kind = "forget" /\ last.user = "U1"
    /\ MapGet(pendingForgetRequests, "U1") = NoRequest
    /\ MapGet(pendingCleanupRequests, "U1") # NoRequest
    /\ MapGet(pendingForgetRequests, "U2") # NoRequest

\* C6. Confirm is an atomic fetch-and-remove: the entry a key holds is handed
\* to at most one confirm.
C6_ConfirmAtMostOnce ==
    \A k \in Kinds, u \in Users : accepted[k][u] <= 1

\* C7. Expiry on read (forget): a YES/NO that finds an entry younger than the
\* ttl is handed it, and one that comes after the ttl has passed is handed
\* nothing, swept or not.
C7_ExpiryOnRead ==
    (last.kind = "forget" /\ last.op \in {"get", "confirm", "cancel"}
     /\ last.old # NoRequest)
        => /\ now - last.old.timestamp < ForgetTtl => last.ret = last.old
           /\ now - last.old.timestamp > ForgetTtl => last.ret = NoRequest

\* C8. No execution after expiry: no confirm, of any kind, is handed an entry
\* whose expiresAt (timestamp + ttl) has passed.
C8_NoConfirmAfterExpiry ==
    last.op = "confirm" => now - last.ret.timestamp <= ForgetTtl

\* C9. Create racing with Confirm: the delete that ends a confirm removes the
\* entry that confirm was handed or nothing, never an entry created since.
C9_ConfirmRemovesWhatItReturned ==
    last.op = "delete" => last.old \in {NoRequest, last.ret}

\* C10. Two-step confirmation: factoids are written on behalf of a request
\* only by a confirm of the same user and kind that was handed that request
\* before it expired; a cancel (NO, Cancel button) and a sweeper pass remove
\* entries without writing factoids.
C10_ExecuteOnlyConfirmedInTime ==
    [][ /\ \A t \in TaskIds :
              (tasks[t].request # NoRequest /\ last'.op = "execute"
               /\ tasks'[t] # tasks[t])
                  => /\ last'.ret = tasks[t].request
                     /\ last'.user = tasks[t].user
                     /\ tasks[t].at - tasks[t].request.timestamp <= ForgetTtl
        /\ last'.op \in {"cancel", "sweep"} => facts' = facts
      ]_vars

\* An entry old enough to be past its ttl when the interval timer first fires.
DueAtFirstSweep(e) == e # NoRequest /\ e.timestamp + ForgetTtl < SweepInterval

C12_TerminalUntilCreate ==
    [][ /\ last'.op \in {"confirm", "cancel"} =>
              PendingAfter(last'.kind, last'.user) = NoRequest
        /\ last'.op = "create" => PendingAfter(last'.kind, last'.user) = last'.ret
        /\ \A k \in Kinds, u \in Users :
              Pending(k, u) = NoRequest =>
                  /\ (last'.op \in {"get", "confirm", "cancel"}
                      /\ last'.kind = k /\ last'.user = u) => last'.ret = NoRequest
                  /\ PendingAfter(k, u) # NoRequest =>
                        (last'.op = "create" /\ last'.kind = k /\ last'.user = u)
      ]_vars

\* The entries the map of a kind holds under the key of a user.
EntriesOf(kind, user) ==
    CASE kind = "forget"  -> { p \in pendingForgetRequests : p[1] = user }
      [] kind = "cleanup" -> { p \in pendingCleanupRequests : p[1] = user }
      [] kind = "restore" -> { p \in pendingRestoreRequests : p[1] = user }

\* C13. At most one pending entry per (requester, kind): no map ever holds
\* two entries under the key of one user.  (That one user can hold an entry
\* of each kind at once is the reachable state C13_Witness.)
C13_OneEntryPerKey ==
    \A k \in Kinds, u \in Users : Cardinality(EntriesOf(k, u)) <= 1

\* U1 holds a forget, a cleanup and a restore entry at once, the restore
\* entry being a second request that has replaced a different first one.
C13_Witness ==
    /\ \A k \in Kinds : Cardinality(EntriesOf(k, "U1")) = 1
    /\ last.op = "create" /\ last.kind = "restore" /\ last.user = "U1"
    /\ last.old # NoRequest /\ last.old # last.ret

\* Everything but the record of the last step is left as it was.
StoreUntouched ==
    UNCHANGED <<now, nextSweep, pendingForgetRequests, pendingCleanupRequests,
                pendingRestoreRequests, facts, tasks, accepted>>

\* The outcome of a cancel (NO, or a Cancel button) on the key (user, kind).
CancelOutcome(kind, user) ==
    IF Pending(kind, user) # NoRequest
    THEN /\ last'.op = "cancel" /\ last'.kind = kind /\ last'.user = user
         /\ last'.ret = Pending(kind, user)
         /\ PendingAfter(kind, user) = NoRequest
         /\ facts' = facts /\ tasks' = tasks
    ELSE /\ last'.op = "get" /\ last'.kind = kind /\ last'.user = user
         /\ last'.ret = NoRequest
         /\ StoreUntouched

\* C14. Cancel idempotence: a cancel answers "cancelled" exactly when the key
\* holds an entry, and then removes it and does nothing else; a cancel on a key
\* without entry, so every further cancel before the next create, is answered
\* with nothing and changes nothing.
C14_CancelIdempotent ==
    [][ /\ \A t \in TaskIds, u \in Users :
              /\ YesNoMessage(t, u, "NO") => CancelOutcome("forget", u)
              /\ CleanupAction(t, u, "cancel") => CancelOutcome("cleanup", u)
              /\ RestoreAction(t, u, "cancel") => CancelOutcome("restore", u)
        /\ last'.op = "cancel" => Pending(last'.kind, last'.user) # NoRequest
        /\ (last.op = "cancel" /\ last'.op \in {"get", "confirm", "cancel"}
            /\ last'.kind = last.kind /\ last'.user = last.user)
              => (last'.op = "get" /\ last'.ret = NoRequest /\ StoreUntouched)
      ]_vars

\* U1's cleanup request has just been cancelled and is gone, while U1's
\* forget request and U2's cleanup request are still pending.
C14_Witness ==
    /\ last.op = "cancel" /\ last.kind = "cleanup" /\ last.user = "U1"
    /\ Pending("cleanup", "U1") = NoRequest
    /\ Pending("forget", "U1") # NoRequest
    /\ Pending("cleanup", "U2") # NoRequest

\* An answer (YES, NO or a button click) of a user whose key of that kind
\* holds no entry: nothing is handed out and nothing changes.
AbsentOutcome(kind, user) ==
    /\ last'.op = "get" /\ last'.kind = kind /\ last'.user = user
    /\ last'.ret = NoRequest
    /\ StoreUntouched

\* C17. Absence is not an error: an answer on a key that holds no entry is
\* handed nothing, whichever answer it is, and leaves every map, the factoids
\* and every handler as they were; a YES or NO without a pending forget
\* request gets no reply at all.
C17_AbsenceChangesNothing ==
    [][ \A t \in TaskIds, u \in Users :
            /\ (EntriesOf("forget", u) = {}
                /\ (YesNoMessage(t, u, "YES") \/ YesNoMessage(t, u, "NO")))
                  => (AbsentOutcome("forget", u) /\ last'.reply = "none")
            /\ (EntriesOf("cleanup", u) = {}
                /\ (CleanupAction(t, u, "confirm") \/ CleanupAction(t, u, "cancel")))
                  => AbsentOutcome("cleanup", u)
            /\ (EntriesOf("restore", u) = {}
                /\ (RestoreAction(t, u, "confirm") \/ RestoreAction(t, u, "cancel")))
                  => AbsentOutcome("restore", u)
      ]_vars

\* U2, who has no forget request, has said YES or NO while U1's forget
\* request and U2's own cleanup request were pending; both are still there.
C17_Witness ==
    /\ last.op = "get" /\ last.kind = "forget" /\ last.user = "U2"
    /\ last.reply = "none"
    /\ EntriesOf("forget", "U2") = {}
    /\ EntriesOf("forget", "U1") # {}
    /\ EntriesOf("cleanup", "U2") # {}

KindOf(handler) ==
    CASE handler = "yesNo"      -> "forget"
      [] handler = "cleanupAct" -> "cleanup"
      [] handler = "restoreAct" -> "restore"

\* C22. Removal whatever the outcome: when the handler of an accepted confirm
\* ends, having executed the request or having failed on a storage error, the
\* key of its user holds no entry, so a further confirm click finds nothing
\* until the next create.
C22_RemovedWhateverTheOutcome ==
    [][ \A t \in TaskIds :
            (tasks[t].handler \in {"yesNo", "cleanupAct", "restoreAct"}
             /\ tasks'[t].handler = "idle")
                => PendingAfter(KindOf(tasks[t].handler), tasks[t].user) = NoRequest
      ]_vars

\* C23. Prompt implies pending entry: when a flow's confirmation prompt has just
\* been delivered the entry of that user is in the flow's map, and when sending
\* the prompt has just failed the command has left no entry behind.
C23_PromptImpliesEntry ==
    /\ last.reply = "prompt" => Pending(last.kind, last.user) = last.ret
    /\ (last.op = "create" /\ last.reply = "failed") =>
           Pending(last.kind, last.user) = NoRequest

\* C24. One pass of the sweeper removes exactly the entries, of whatever kind,
\* whose ttl has passed at the time of the pass (now - timestamp > ForgetTtl)
\* and leaves every other entry as it was: an entry of age ForgetTtl exactly
\* is kept.
C24_SweepRemovesExactlyExpired ==
    [][ last'.op = "sweep" =>
            \A k \in Kinds, u \in Users :
                PendingAfter(k, u) =
                    IF /\ Pending(k, u) # NoRequest
                       /\ now - Pending(k, u).timestamp > ForgetTtl
                    THEN NoRequest ELSE Pending(k, u) ]_vars

\* C34. No lost factoid updates: when a handler that creates a factoid
\* finishes, every factoid stored before its save is still stored after it
\* (only creations take place, so a key can only disappear by being lost).
C34_NoLostUpdate ==
    [][ \A t \in TaskIds :
            (tasks[t].handler = "setFact" /\ tasks[t].pc = "save"
             /\ tasks'[t].handler = "idle")
                => facts \subseteq facts' ]_vars

C19_InvalidPatternRejected ==
    /\ registered.outcome = "InvalidPatternError" => rules = registered.before
    /\ registered.outcome = "ok" =>
          /\ Len(rules) = Len(registered.before) + 1
          /\ SubSeq(rules, 1, Len(registered.before)) = registered.before
    /\ \A i \in 1..Len(rules) : rules[i].pattern \in Patterns
    /\ resolved # NoCall =>
          /\ resolved.owner \in Owners \cup {None}
          /\ resolved.any \in BOOLEAN
          /\ resolved.owner = Resolve(rules, resolved.text)
          /\ resolved.any = MatchesAny(rules, resolved.text)

\* A Register has just failed on a registry that holds two rules, both kept.
C19_Witness ==
    /\ registered.outcome = "InvalidPatternError"
    /\ Len(rules) = 2
    /\ rules = registered.before

\* C26. The rule list is append-only: a step keeps every registered rule in
\* its place with its pattern, owner, priority and exclusive flag; the list
\* grows by one rule at a time, at the end, by a successful Register that gives
\* the rule an order greater than every order given before; and a step that
\* answers a Resolve / MatchesAny call leaves the list as it was.
C26_RulesAppendOnly ==
    [][ /\ \A i \in 1..Len(rules) : Len(rules') >= i /\ rules'[i] = rules[i]
        /\ Len(rules') # Len(rules) =>
              /\ Len(rules') = Len(rules) + 1
              /\ registered'.outcome = "ok"
              /\ \A i \in 1..Len(rules) :
                    rules'[Len(rules')].registrationOrder > rules[i].registrationOrder
        /\ resolved' # NoCall => rules' = rules
      ]_vars

\* Three rules are registered, with three different orders, and a call has
\* been answered over them.
C26_Witness ==
    /\ Len(rules) = MaxRules
    /\ \A i, j \in 1..Len(rules) :
          i < j => rules[i].registrationOrder < rules[j].registrationOrder
    /\ resolved # NoCall /\ resolved.any

\* C27. Resolve only returns an owner whose rule matches: the owner returned
\* has a registered rule whose pattern matches the text, and when some rule
\* matches the text an owner is returned, whatever rules of higher priority or
\* exclusive rules that do not match the text are registered.
C27_OwnerHasMatchingRule ==
    resolved # NoCall =>
        /\ resolved.owner # None =>
              \E i \in 1..Len(rules) :
                  /\ rules[i].owner = resolved.owner
                  /\ Matches(rules[i].pattern, resolved.text)
        /\ (\E i \in 1..Len(rules) : Matches(rules[i].pattern, resolved.text)) =>
              resolved.owner # None

\* With ^hi$ registered for one owner, exclusive and at priority 100, and the
\* catch-all for the other at priority 0.25, a text other than "hi" has
\* resolved to the catch-all's owner.
C27_Witness ==
    /\ resolved # NoCall /\ resolved.text = <<"y", "o">>
    /\ \E i, j \in 1..Len(rules) :
          /\ rules[i].pattern.kind = "exact" /\ rules[i].priority = 400 /\ rules[i].exclusive
          /\ rules[j].pattern.kind = "any" /\ rules[j].priority = 1
          /\ rules[i].owner # rules[j].owner
          /\ resolved.owner = rules[j].owner
    /\ \A i \in 1..Len(rules) : rules[i].pattern.kind = "exact" => rules[i].owner # resolved.owner

\* The exclusive rules matching the text of the last Resolve call.
ExclusiveMatches == { i \in ResolvedMatches : rules[i].exclusive }

\* C28. Ordering among exclusive rules: when exclusive rules match the text,
\* Resolve returns the owner of the exclusive match that has the highest
\* priority among the exclusive matches and, among those of that priority, the
\* lowest registrationOrder; non-exclusive matches of any priority play no part.
C28_ExclusiveOrdering ==
    (resolved # NoCall /\ ExclusiveMatches # {}) =>
        \E i \in ExclusiveMatches :
            /\ resolved.owner = rules[i].owner
            /\ \A j \in ExclusiveMatches :
                  \/ rules[i].priority > rules[j].priority
                  \/ /\ rules[i].priority = rules[j].priority
                     /\ rules[i].registrationOrder <= rules[j].registrationOrder

\* Two exclusive rules of different owners match, the one of lower priority
\* registered first, a non-exclusive match has a higher priority than both,
\* and the exclusive rule of higher priority has won.
C28_Witness ==
    /\ resolved # NoCall
    /\ \E i, j, k \in ResolvedMatches :
          /\ i < j
          /\ rules[i].exclusive /\ rules[i].priority = 1
          /\ rules[j].exclusive /\ rules[j].priority = 4
          /\ ~rules[k].exclusive /\ rules[k].priority = 400
          /\ rules[i].owner # rules[j].owner /\ rules[k].owner = rules[i].owner
          /\ resolved.owner = rules[j].owner

\* C29. Register concurrent with Resolve: a call that was in progress while
\* rules were registered returns what Resolve and MatchesAny give on the whole
\* rule list as it stood at some moment of the call, before or after each
\* of those registrations, never on a list holding a half-added rule.
C29_ResolveSeesWholeList ==
    (scan.state = "done" /\ resolved # NoCall) =>
        \E n \in Len(scan.over)..Len(rules) :
            /\ resolved.owner = Resolve(SubSeq(rules, 1, n), resolved.text)
            /\ resolved.any = MatchesAny(SubSeq(rules, 1, n), resolved.text)

\* A rule was registered while a call was in progress, and the call has
\* returned the answer of the list before that registration, which is not the
\* answer of the list after it.
C29_Witness ==
    /\ scan.state = "done" /\ resolved # NoCall
    /\ Len(rules) = Len(scan.over) + 1
    /\ resolved.owner = Resolve(scan.over, resolved.text)
    /\ resolved.owner # Resolve(rules, resolved.text)
    /\ resolved.owner # None

\* C30. A worker that exits with a non-zero code during initialization
\* (after the fork, before initializationComplete has been handled) has had
\* the promise of the initializeModel call that forked it rejected.
C30_ExitDuringInitRejects ==
    \A w \in WorkerIds :
        (/\ workers[w].phase = "exited"
         /\ workers[w].code # 0
         /\ workers[w].exitedIn \in {"started", "loading"})
            => workers[w].promise = "rejected"

\* C33. At most one LLM worker process is alive at any time.
C33_AtMostOneWorkerAlive ==
    Cardinality({ w \in WorkerIds : workers[w].phase \in Running }) <= 1

\* C31. Every generateResponse call that has been made eventually completes:
\* it resolves with a response or a fallback message, or rejects.
C31_EveryCallCompletes ==
    \A c \in CallIds :
        (calls[c].promise \in {"running", "pending"})
            ~> (calls[c].promise \in {"resolved", "fallback", "rejected"})

\* C32. Each request is settled at most once and then forgotten: resolve or
\* reject is called at most once per request, a request is in pendingRequests,
\* under its own id, exactly while its promise is pending, requests have
\* different ids, and a response settles only the request it answers.
C32_SettledOnceThenForgotten ==
    /\ \A c \in CallIds :
          /\ calls[c].settled <= 1
          /\ calls[c].settled = 1 <=> calls[c].promise \in {"resolved", "rejected"}
          /\ calls[c].promise = "pending" <=>
                 MapGet(pendingRequests, calls[c].id) = [call |-> c]
          /\ calls[c].promise = "pending" <=> (\E p \in pendingRequests : p[2].call = c)
          /\ calls[c].answeredBy \in {0, c}
    /\ \A c, d \in CallIds :
          (c # d /\ calls[c].pc = "sent" /\ calls[d].pc = "sent") => calls[c].id # calls[d].id
    /\ \A p, q \in pendingRequests : p[1] = q[1] => p = q

\* One request was rejected by its timer (or by a worker's exit) and the
\* worker's response to it came afterwards and changed nothing, while another
\* request, with another id, was resolved by the response that answers it.
C32_Witness ==
    \E c, d \in CallIds :
        /\ calls[c].timer = "fired" /\ calls[c].msg = "answered"
        /\ calls[c].promise = "rejected" /\ calls[c].settled = 1
        /\ calls[d].promise = "resolved" /\ calls[d].answeredBy = d
        /\ calls[c].id # calls[d].id
        /\ pendingRequests = {}

(***************************************************************************)
(* Properties of the rate limiter (SpecRate)                               *)
(***************************************************************************)

\* C20. Rate limit as documented: for every limit and user, the calls that
\* checkRateLimit allowed within the last windowMs are at most maxRequests.
C20_AtMostMaxPerInterval ==
    \A l \in RATE_LIMITS, u \in RateUsers :
        Len(GrantedWithin(granted[l.identifier][u], now, l.windowMs)) <= l.maxRequests

(***************************************************************************)
(* Properties of plugin enablement (SpecPlugins)                           *)
(***************************************************************************)

\* str with nothing but blanks before and after it removed is name.
TrimsTo(str, name) ==
    /\ \E i \in 1..(Len(str) + 1), j \in 0..Len(str) :
          /\ name = SubSeq(str, i, j)
          /\ \A c \in 1..(i - 1) : str[c] = " "
          /\ \A c \in (j + 1)..Len(str) : str[c] = " "
    /\ name # <<>> => (name[1] # " " /\ name[Len(name)] # " ")
    /\ name = <<>> => \A c \in 1..Len(str) : str[c] = " "

\* The positions at which a comma-separated item of value that trims to the
\* non-empty name starts.
NamedAt(value, name) ==
    { i \in 1..(Len(value) + 1) :
        /\ i = 1 \/ value[i - 1] = ","
        /\ \E j \in (i - 1)..Len(value) :
              /\ \A c \in i..j : value[c] # ","
              /\ j = Len(value) \/ value[j + 1] = ","
              /\ name # <<>>
              /\ TrimsTo(SubSeq(value, i, j), name) }

FirstAt(value, name) ==
    CHOOSE i \in NamedAt(value, name) : \A j \in NamedAt(value, name) : i <= j

\* file ends in .ts or .js
HasExtension(file) ==
    \E n \in 0..Len(file), ext \in { <<".", "t", "s">>, <<".", "j", "s">> } :
        file = SubSeq(file, 1, n) \o ext

\* name is the file name without a trailing .ts or .js
WithoutExtension(file, name) ==
    \/ file = name \o <<".", "t", "s">>
    \/ file = name \o <<".", "j", "s">>
    \/ file = name /\ ~HasExtension(file)

\* C21. Plugin enablement: with ENABLED_PLUGINS unset or empty every file is
\* enabled and getEnabledPlugins returns null; otherwise a file is enabled
\* exactly when its name without a trailing .ts or .js is one of the
\* comma-separated items after trimming, empty items dropped, and
\* getEnabledPlugins returns those names, each once, in the order in which
\* they first appear.
C21_PluginEnablement ==
    LET allOn == ~pluginEnv.set \/ pluginEnv.value = <<>>
        value == pluginEnv.value
    IN  /\ pluginAnswer.op = "isPluginEnabled" =>
              IF allOn THEN pluginAnswer.enabled
              ELSE pluginAnswer.enabled <=>
                      \E name \in { SubSeq(pluginAnswer.file, 1, n) :
                                        n \in 0..Len(pluginAnswer.file) } :
                          /\ WithoutExtension(pluginAnswer.file, name)
                          /\ NamedAt(value, name) # {}
        /\ pluginAnswer.op = "getEnabledPlugins" =>
              IF allOn THEN pluginAnswer.list = AllEnabled
              ELSE LET names == pluginAnswer.list.names
                   IN  /\ ~pluginAnswer.list.all
                       /\ \A a, b \in 1..Len(names) :
                             a < b => FirstAt(value, names[a]) < FirstAt(value, names[b])
                       /\ \A a \in 1..Len(names) : NamedAt(value, names[a]) # {}
                       /\ \A i \in 1..Len(value), j \in 1..Len(value) :
                             NamedAt(value, SubSeq(value, i, j)) # {}
                                 => SubSeq(value, i, j) \in Range(names)

\* ENABLED_PLUGINS = ",k ,": k.ts has been found enabled.
C21_Witness ==
    /\ pluginEnv = EnvSet(<<",", "k", " ", ",">>)
    /\ pluginAnswer.op = "isPluginEnabled"
    /\ pluginAnswer.file = <<"k", ".", "t", "s">>
    /\ pluginAnswer.enabled

(***************************************************************************)
(* The rate limiter's windows (services/rate-limit.ts)                     *)
(***************************************************************************)

\* How many calls of the current window returned true.
TrueCalls(w) == Cardinality({ i \in DOMAIN w : w[i] })

\* C35: while a key has an entry, its count is the number of calls of the
\* window that returned true and is at most maxRequests (which is >= 1); the
\* first maxRequests calls of the window returned true and every later call
\* of the window returned false.
C35_CountIsAllowedCalls ==
    \A l \in RATE_LIMITS, u \in RateUsers :
        LET entry == MapGet(rateLimitStore, RateKey(l.identifier, u))
            w == window[l.identifier][u]
        IN  (l.maxRequests >= 1 /\ entry # NoRequest) =>
                /\ entry.count = TrueCalls(w)
                /\ entry.count <= l.maxRequests
                /\ \A i \in DOMAIN w : w[i] <=> i <= l.maxRequests

\* A window that took maxRequests calls and then refused one.
C35_Witness ==
    \E l \in RATE_LIMITS, u \in RateUsers :
        /\ Len(window[l.identifier][u]) > l.maxRequests
        /\ MapGet(rateLimitStore, RateKey(l.identifier, u)) # NoRequest
        /\ MapGet(rateLimitStore, RateKey(l.identifier, u)).count = l.maxRequests

\* C36: a checkRateLimit call that returns false leaves every entry of the
\* store as it was (count and resetTime of its key, and all other keys), so
\* refused calls never extend the window; and once the time exceeds an
\* entry's resetTime, the next call for that key is allowed.
C36_DeniedChangesNothing ==
    [][ \A l \in RATE_LIMITS, u \in RateUsers :
            LET entry == MapGet(rateLimitStore, RateKey(l.identifier, u))
                w == window[l.identifier][u]
                called == \/ window'[l.identifier][u] # w
                          \/ /\ rateLimitStore' # rateLimitStore
                             /\ rateLast'.userId = u
                             /\ rateLast'.identifier = l.identifier
                             /\ lastCleanup' = lastCleanup
            IN  /\ (window'[l.identifier][u] = Append(w, FALSE)) =>
                       /\ ~rateLast'.ret
                       /\ rateLimitStore' = rateLimitStore
                /\ (called /\ ~rateLast'.ret) => rateLimitStore' = rateLimitStore
                /\ (called /\ entry # NoRequest /\ now > entry.resetTime) =>
                       /\ rateLast'.ret
                       /\ MapGet(rateLimitStore', RateKey(l.identifier, u)) =
                              RateLimitEntry(1, now + l.windowMs)
      ]_vars

\* A call was refused and the time has since passed the window's end: the
\* entry still reads as the refused call left it.
C36_Witness ==
    \E l \in RATE_LIMITS, u \in RateUsers :
        LET entry == MapGet(rateLimitStore, RateKey(l.identifier, u))
        IN  /\ rateLast = [userId |-> u, identifier |-> l.identifier, ret |-> FALSE,
                            remaining |-> rateLast.remaining]
            /\ entry # NoRequest
            /\ entry.count = l.maxRequests
            /\ now > entry.resetTime

\* C37: whenever checkRateLimit refuses a call, getRemainingTime for the same
\* user and identifier, read at the same time, is at least 1 second.
C37_DenialHasPositiveWait ==
    ~rateLast.ret => rateLast.remaining >= 1

\* C38: cleanupExpiredEntries removes only entries whose resetTime is in the
\* past, and whatever calls came before, checkRateLimit and getRemainingTime
\* return the same with the cleanup runs as they would without them.
C38_CleanupIsTransparent ==
    /\ rateLimitStore \subseteq uncleaned
    /\ \A p \in uncleaned \ rateLimitStore : now > p[2].resetTime
    /\ \A l \in RATE_LIMITS, u \in RateUsers :
          /\ CheckRateLimitOn(rateLimitStore, u, l).ret =
                 CheckRateLimitOn(uncleaned, u, l).ret
          /\ GetRemainingTime(rateLimitStore, u, l.identifier) =
                 GetRemainingTime(uncleaned, u, l.identifier)

\* A cleanup run has removed an entry, and a call made later has started a
\* window for another key.
C38_Witness ==
    /\ lastCleanup >= 0
    /\ uncleaned \ rateLimitStore # {}
    /\ \E l \in RATE_LIMITS, p \in rateLimitStore :
          p[2].resetTime > lastCleanup + l.windowMs

====
